---- MODULE Spec2Model ----
(***************************************************************************)
(* Model of the resumable paraphrase-generation pipeline                   *)
(* (generate_paraphrases.py): the example store, the generation client     *)
(* with its bounded retries, the checkpoint (progress) file, the per-tag   *)
(* artifact writer and the orchestrating loop of                           *)
(* run_paraphrase_generation, with process kills and re-invocations.       *)
(*                                                                         *)
(* Text is modelled as sequences of one-character strings, files as their  *)
(* content (or NoFile), CSV files as sequences of rows, a row being a      *)
(* sequence of fields.                                                     *)
(***************************************************************************)
EXTENDS Integers, Sequences, FiniteSets, TLC

(***************************************************************************)
(* Bounds of the model.                                                    *)
(***************************************************************************)
\* Largest number of distinct tags in the examples input.
MaxTags == 2
\* Largest number of process invocations of run_paraphrase_generation.
MaxRuns == 2
\* Largest number of data rows in an examples file of the work-list model.
MaxRows == 2
\* Largest number of artifact files in the directory of the merge model.
MaxFiles == 2

(***************************************************************************)
(* Program constants.                                                      *)
(***************************************************************************)
\* Number of questions asked of, and required from, the service.
TARGET_COUNT == 200
\* Default of generate_questions_with_gpt5's max_retries parameter.
MAX_RETRIES == 3
\* num_examples passed by the orchestrator to get_random_examples.
NUM_EXAMPLES == 30
\* time.sleep after an empty or short response.
SHORT_WAIT == 2
\* time.sleep after an exception of the API call.
FAULT_WAIT == 5
\* The number of rows per tag validate_merged_file compares with.
ROWS_PER_TAG == 10

(***************************************************************************)
(* Characters and strings.                                                 *)
(***************************************************************************)
Digits == <<"0", "1", "2", "3", "4", "5", "6", "7", "8", "9">>

DigitSet == {Digits[k] : k \in 1..10}

\* Characters str.strip() removes (those that occur in the model).
Whitespace == {" ", "\t", "\r"}

\* The characters of line.lstrip('. )-').
PrefixChars == {".", " ", ")", "-"}

Str_fraction == <<"f", "r", "a", "c", "t", "i", "o", "n">>

Str_question == <<"q", "u", "e", "s", "t", "i", "o", "n">>

Str_tag == <<"t", "a", "g">>

\* Code points of the characters the model orders (ASCII).
Alphabet == <<"\t", "\r", " ", ")", "-", ".", "0", "1", "2", "3", "4", "5", "6", "7",
              "8", "9", "A", "B", "C", "D", "Q", "_", "a", "b", "c", "d", "q", "s", "v">>

Ord(c) == CHOOSE k \in 1..Len(Alphabet) : Alphabet[k] = c

\* str.lower() on one character.
LowerChar(c) ==
    CASE c = "A" -> "a"
      [] c = "B" -> "b"
      [] c = "C" -> "c"
      [] c = "D" -> "d"
      [] c = "Q" -> "q"
      [] OTHER -> c

Lower(s) == [k \in 1..Len(s) |-> LowerChar(s[k])]

\* s < t in Python's string order (by code point, a proper prefix first).
RECURSIVE StrLess(_, _)
StrLess(s, t) ==
    IF t = <<>> THEN FALSE
    ELSE IF s = <<>> THEN TRUE
    ELSE IF Head(s) = Head(t) THEN StrLess(Tail(s), Tail(t))
    ELSE Ord(Head(s)) < Ord(Head(t))

StrLeq(s, t) == s = t \/ StrLess(s, t)

\* s.lstrip(chars)
RECURSIVE LStrip(_, _)
LStrip(s, chars) ==
    IF s # <<>> /\ Head(s) \in chars THEN LStrip(Tail(s), chars) ELSE s

\* s.rstrip(chars)
RECURSIVE RStrip(_, _)
RStrip(s, chars) ==
    IF s # <<>> /\ s[Len(s)] \in chars
    THEN RStrip(SubSeq(s, 1, Len(s) - 1), chars)
    ELSE s

\* s.strip()
Strip(s) == RStrip(LStrip(s, Whitespace), Whitespace)

\* str(n) for a natural number.
RECURSIVE NatToStr(_)
NatToStr(n) ==
    IF n < 10 THEN <<Digits[n + 1]>>
    ELSE Append(NatToStr(n \div 10), Digits[(n % 10) + 1])

\* str(n)
IntToStr(n) == IF n < 0 THEN <<"-">> \o NatToStr(0 - n) ELSE NatToStr(n)

DigitValue(c) == (CHOOSE k \in 1..10 : Digits[k] = c) - 1

RECURSIVE StrToNat(_)
StrToNat(s) ==
    IF s = <<>> THEN 0
    ELSE 10 * StrToNat(SubSeq(s, 1, Len(s) - 1)) + DigitValue(s[Len(s)])

\* int(s) for the texts update_progress writes: an optional sign and digits.
StrToInt(s) ==
    IF Head(s) = "-" THEN 0 - StrToNat(Tail(s)) ELSE StrToNat(s)

\* The injective sequences over the set S that list all of it.
Orderings(S) ==
    {s \in [1..Cardinality(S) -> S] : \A a, b \in 1..Cardinality(S) : s[a] = s[b] => a = b}

Range(s) == {s[k] : k \in 1..Len(s)}

(***************************************************************************)
(* Example Store: the loaders of the two input CSV files.  An input file   *)
(* is the sequence of its data rows as csv.DictReader yields them.         *)
(***************************************************************************)
\* A plain file: whether it exists, and its content.
NoFile == [exists |-> FALSE, content |-> <<>>]

File(content) == [exists |-> TRUE, content |-> content]

\* The value of generate_questions_with_gpt5: None, or a list of questions.
None == [none |-> TRUE, list |-> <<>>]

Questions(list) == [none |-> FALSE, list |-> list]

EmptyDict == [t \in {} |-> <<>>]

\* load_example_questions: tag -> stripped questions, in row order.
RECURSIVE load_example_questions(_)
load_example_questions(rows) ==
    IF rows = <<>> THEN EmptyDict
    ELSE LET before == load_example_questions(SubSeq(rows, 1, Len(rows) - 1))
             row == rows[Len(rows)]
         IN  IF row.tag \in {Str_fraction} THEN before
             ELSE IF Strip(row.question) = <<>> THEN before
             ELSE [t \in DOMAIN before \cup {row.tag} |->
                     IF t = row.tag
                     THEN (IF t \in DOMAIN before THEN before[t] ELSE <<>>)
                              \o <<Strip(row.question)>>
                     ELSE before[t]]

\* load_answers_lookup: tag -> answer, a later row replacing an earlier one.
RECURSIVE load_answers_lookup(_)
load_answers_lookup(rows) ==
    IF rows = <<>> THEN EmptyDict
    ELSE LET before == load_answers_lookup(SubSeq(rows, 1, Len(rows) - 1))
             row == rows[Len(rows)]
         IN  [t \in DOMAIN before \cup {row.tag} |->
                 IF t = row.tag THEN row.answer ELSE before[t]]

\* The set unique_tags that get_unique_tags_from_questions collects.
UniqueTagSet(rows) ==
    {Strip(rows[k].tag) : k \in {n \in 1..Len(rows) :
        Strip(rows[n].tag) # <<>> /\ Strip(rows[n].tag) # Str_fraction}}

\* Variant: sorted(list(unique_tags)), without the key.
get_unique_tags_from_questions_NoKey(rows) ==
    {s \in Orderings(UniqueTagSet(rows)) :
        \A a, b \in 1..Len(s) : a < b => StrLeq(s[a], s[b])}

\* get_unique_tags_from_questions: sorted(list(unique_tags), key=str.lower).
\* The sort is stable on the iteration order of a set of strings, which the
\* interpreter's string hashing fixes per process: among tags with equal
\* keys every order is a possible result.
get_unique_tags_from_questions(rows) ==
    {s \in Orderings(UniqueTagSet(rows)) :
        \A a, b \in 1..Len(s) : a < b => StrLeq(Lower(s[a]), Lower(s[b]))}

\* Variant: the sample is drawn with replacement.
Samples_WithReplacement(available, k) ==
    {[n \in 1..k |-> available[pos[n]]] : pos \in [1..k -> 1..Len(available)]}

\* The k-element samples random.sample(available, k) can return.
Samples(available, k) ==
    {[n \in 1..k |-> available[pos[n]]] :
        pos \in {p \in [1..k -> 1..Len(available)] :
                    \A a, b \in 1..k : p[a] = p[b] => a = b}}

\* get_random_examples: the set of its possible results.
get_random_examples(tagq, tag_name, num_examples) ==
    IF tag_name \notin DOMAIN tagq THEN {<<>>}
    ELSE IF Len(tagq[tag_name]) <= num_examples THEN {tagq[tag_name]}
    ELSE Samples(tagq[tag_name], num_examples)

(***************************************************************************)
(* Checkpoint Store: the progress file.                                    *)
(***************************************************************************)
\* Variant: 0 is returned when there is nothing to read.
get_last_processed_index_Zero(file) ==
    IF file.exists /\ Strip(file.content) # <<>>
    THEN StrToInt(Strip(file.content))
    ELSE 0

\* get_last_processed_index on a progress file with the given content.
get_last_processed_index(file) ==
    IF file.exists /\ Strip(file.content) # <<>>
    THEN StrToInt(Strip(file.content))
    ELSE -1

\* update_progress, at open(PROGRESS_FILE, 'w'): the file is created or
\* truncated; the text reaches it when the with block closes it.
update_progress_open == File(<<>>)

\* Variant: the ordinal after the one processed is written.
update_progress_Ahead(index) == File(IntToStr(index + 1))

\* Variant: the ordinal before the one processed is written.
update_progress_Behind(index) == File(IntToStr(index - 1))

\* update_progress(index), once the file is closed.
update_progress(index) == File(IntToStr(index))

\* Variant: the run resumes at the last processed ordinal, not after it.
resume_index_Redo(last, total) ==
    IF last + 1 >= total
    THEN [start |-> 0, reset |-> TRUE]
    ELSE [start |-> IF last >= 0 THEN last ELSE 0, reset |-> FALSE]

\* Variant: every run starts at ordinal 0.
resume_index_Restart(last, total) == [start |-> 0, reset |-> last + 1 >= total]

\* Variant: a stale checkpoint restarts the run at 0 but is left in place.
resume_index_NoReset(last, total) ==
    [start |-> IF last + 1 >= total THEN 0 ELSE last + 1, reset |-> FALSE]

\* The resume rule of run_paraphrase_generation: the index the loop starts
\* at, and whether the checkpoint is reset (update_progress(-1)) first.
resume_index(last, total) ==
    IF last + 1 >= total
    THEN [start |-> 0, reset |-> TRUE]
    ELSE [start |-> last + 1, reset |-> FALSE]

(***************************************************************************)
(* Generation Client: parsing of one response.  A response text is the     *)
(* sequence of its lines (the text split on line breaks).                  *)
(***************************************************************************)
\* "not questions_text" after response.output_text.strip().
IsEmptyText(lines) == \A k \in 1..Len(lines) : Strip(lines[k]) = <<>>

\* Variant: the line is not stripped again once its prefix is removed.
ParseLine_NoStrip(line) ==
    IF Strip(line) = <<>> THEN <<>>
    ELSE LStrip(LStrip(LStrip(line, Whitespace), DigitSet), PrefixChars)

\* One line of the loop over questions_text.split('\n'): the entry it
\* appends, or <<>> when it appends none.
ParseLine(line) ==
    IF Strip(line) = <<>> THEN <<>>
    ELSE Strip(LStrip(LStrip(Strip(line), DigitSet), PrefixChars))

\* The list "questions" built from a response text: the entries of its
\* lines, in order (computed by halves, which keeps the recursion shallow).
RECURSIVE ParseResponse(_)
ParseResponse(lines) ==
    IF lines = <<>> THEN <<>>
    ELSE IF Len(lines) = 1
    THEN (IF ParseLine(lines[1]) # <<>> THEN <<ParseLine(lines[1])>> ELSE <<>>)
    ELSE LET half == Len(lines) \div 2
         IN  ParseResponse(SubSeq(lines, 1, half)) \o
             ParseResponse(SubSeq(lines, half + 1, Len(lines)))

\* questions[:n]
FirstN(questions, n) ==
    IF Len(questions) <= n THEN questions ELSE SubSeq(questions, 1, n)

(***************************************************************************)
(* Per-Item Writer: the content save_individual_csv gives the tag's file.  *)
(***************************************************************************)
HeaderRow == <<Str_question, Str_tag>>

ArtifactRows(tag_name, generated_questions) ==
    <<HeaderRow>> \o
    [k \in 1..Len(generated_questions) |-> <<generated_questions[k], tag_name>>]

\* The file object of open(filepath, 'w', encoding='utf-8', newline=''):
\* the text layer collects what writer.writerow writes and hands it on to
\* the file when one more line would take it past chunk_size bytes.
chunk_size == 8192

\* csv.writer puts a field in quotes when it holds the delimiter, the quote
\* character or a character of the line terminator, and doubles its quotes.
FieldBytes(field) ==
    IF \E k \in 1..Len(field) : field[k] \in {",", "\"", "\r", "\n"}
    THEN Len(field) + 2 + Cardinality({k \in 1..Len(field) : field[k] = "\""})
    ELSE Len(field)

\* The bytes of the line writer.writerow writes for a row of two fields:
\* the fields, the comma and the line terminator '\r\n'.
RowBytes(row) == FieldBytes(row[1]) + 1 + FieldBytes(row[2]) + 2

\* The bytes of each line of the file of tag_name, in order.
LineSizes(tag_name, generated_questions) ==
    <<RowBytes(HeaderRow)>> \o
    [k \in 1..Len(generated_questions) |-> RowBytes(<<generated_questions[k], tag_name>>)]

\* The bytes of lines lo..hi, sizes being the bytes of each line.
LinesBytes(sizes, lo, hi) ==
    LET bytes[r \in (1..Len(sizes)) \X (1..Len(sizes))] ==
            IF r[1] = r[2] THEN sizes[r[1]]
            ELSE LET mid == (r[1] + r[2]) \div 2
                 IN  bytes[<<r[1], mid>>] + bytes[<<mid + 1, r[2]>>]
    IN  IF lo > hi THEN 0 ELSE bytes[<<lo, hi>>]

\* How many of the lines lo..hi, taken in order, fit in room bytes: all of
\* them, or the first ones whose bytes together are within room.
Fitting(sizes, lo, hi, room) ==
    IF LinesBytes(sizes, lo, hi) <= room THEN hi - lo + 1
    ELSE Cardinality({k \in lo..hi : LinesBytes(sizes, lo, k) <= room})

\* The text layer hands on at least one line: a line longer than chunk_size
\* goes alone.
AtLeastOne(n) == IF n = 0 THEN 1 ELSE n

\* The lines the file holds after the text layer hands on its next chunk,
\* when it holds on_disk of them.
FlushedRows(sizes, on_disk) ==
    on_disk + AtLeastOne(Fitting(sizes, on_disk + 1, Len(sizes), chunk_size))

(***************************************************************************)
(* The external generation service: what one request can produce.          *)
(***************************************************************************)
\* The text of question j in a response.
Body(j) == <<"q">> \o NatToStr(j)

\* A question of some ninety characters.
LongBody(j) == Body(j) \o [k \in 1..90 |-> "a"]

\* Line j of a response, by the numbering style the service used.
MkLine(style, j) ==
    CASE style = "dot" -> NatToStr(j) \o <<".", " ">> \o Body(j) \o <<"\r">>
      [] style = "paren" -> NatToStr(j) \o <<")", " ">> \o Body(j)
      [] style = "long" -> NatToStr(j) \o <<")", " ">> \o LongBody(j)
      [] OTHER -> Body(j)

MkResponse(style, n) == [j \in 1..n |-> MkLine(style, j)]

\* Response texts of short questions: one at the target and one with an
\* entry in excess, two that are an entry short, an empty one and one of
\* blank lines only.
ShortResponses ==
    {MkResponse("paren", TARGET_COUNT), MkResponse("dot", TARGET_COUNT + 1)}
    \cup {MkResponse("dot", TARGET_COUNT - 1), MkResponse("plain", TARGET_COUNT - 1)}
    \cup {<<>>, <<<<" ">>, <<"\t">>>>}

\* A response text at the target whose questions are long: its artifact
\* does not fit the write buffer.
LongResponses == {MkResponse("long", TARGET_COUNT)}

Responses == ShortResponses \cup LongResponses

\* What client.responses.create does on one request: it raises, or the
\* response carries one of the texts.
Outcomes(texts) ==
    {[fault |-> TRUE, text |-> <<>>]} \cup {[fault |-> FALSE, text |-> r] : r \in texts}

\* The service that answers with short questions.
ServiceOutcomes == Outcomes(ShortResponses)

\* The service that answers with long questions.
LongServiceOutcomes == Outcomes(LongResponses)

\* What a request to the service named can produce.
OutcomesOf(name) == IF name = "long" THEN LongServiceOutcomes ELSE ServiceOutcomes

\* The services tried on an input: the one of long questions is tried on
\* the input of a single tag that has an example and an answer.
ServicesFor(kinds) == IF kinds = <<"ok">> THEN {"short", "long"} ELSE {"short"}

\* ParseResponse, tabulated once for the response texts of the model.
Parsed == [r \in Responses |-> ParseResponse(r)]

ParseOf(text) == IF text \in Responses THEN Parsed[text] ELSE ParseResponse(text)

(***************************************************************************)
(* Generation Client: one iteration of the loop                            *)
(* "for attempt in range(max_retries)" on the outcome o of its request.    *)
(* kind "continue": the loop goes on after time.sleep(wait); "return":     *)
(* the call returns value; "raise": an exception leaves the call.          *)
(***************************************************************************)
Continue(wait) == [kind |-> "continue", wait |-> wait, value |-> None]

Return(value) == [kind |-> "return", wait |-> 0, value |-> value]

Raise == [kind |-> "raise", wait |-> 0, value |-> None]

\* Variant: a short response is not retried.
generate_attempt_GiveUp(o, att, max_retries) ==
    IF o.fault
    THEN IF att < max_retries - 1 THEN Continue(FAULT_WAIT) ELSE Return(None)
    ELSE IF IsEmptyText(o.text)
    THEN IF att < max_retries - 1 THEN Continue(SHORT_WAIT) ELSE Return(None)
    ELSE LET parsed == ParseOf(o.text)
         IN  IF Len(parsed) < TARGET_COUNT
             THEN Return(None)
             ELSE Return(Questions(FirstN(parsed, TARGET_COUNT)))

\* Variant: the parsed list is returned whole.
generate_attempt_NoTruncate(o, att, max_retries) ==
    IF o.fault
    THEN IF att < max_retries - 1 THEN Continue(FAULT_WAIT) ELSE Return(None)
    ELSE IF IsEmptyText(o.text)
    THEN IF att < max_retries - 1 THEN Continue(SHORT_WAIT) ELSE Return(None)
    ELSE LET parsed == ParseOf(o.text)
         IN  IF Len(parsed) < TARGET_COUNT
             THEN IF att < max_retries - 1 THEN Continue(SHORT_WAIT) ELSE Return(None)
             ELSE Return(Questions(parsed))

\* Variant: the request is made outside the try block.
generate_attempt_NoCatch(o, att, max_retries) ==
    IF o.fault
    THEN Raise
    ELSE IF IsEmptyText(o.text)
    THEN IF att < max_retries - 1 THEN Continue(SHORT_WAIT) ELSE Return(None)
    ELSE LET parsed == ParseOf(o.text)
         IN  IF Len(parsed) < TARGET_COUNT
             THEN IF att < max_retries - 1 THEN Continue(SHORT_WAIT) ELSE Return(None)
             ELSE Return(Questions(FirstN(parsed, TARGET_COUNT)))

\* Variant: the wait grows with the attempt number.
generate_attempt_Linear(o, att, max_retries) ==
    IF o.fault
    THEN IF att < max_retries - 1 THEN Continue(FAULT_WAIT * (att + 1)) ELSE Return(None)
    ELSE IF IsEmptyText(o.text)
    THEN IF att < max_retries - 1 THEN Continue(SHORT_WAIT * (att + 1)) ELSE Return(None)
    ELSE LET parsed == ParseOf(o.text)
         IN  IF Len(parsed) < TARGET_COUNT
             THEN IF att < max_retries - 1
                  THEN Continue(SHORT_WAIT * (att + 1))
                  ELSE Return(None)
             ELSE Return(Questions(FirstN(parsed, TARGET_COUNT)))

\* Variant: the call sleeps after its final attempt too.
generate_attempt_SleepLast(o, att, max_retries) ==
    IF o.fault
    THEN Continue(FAULT_WAIT)
    ELSE IF IsEmptyText(o.text)
    THEN Continue(SHORT_WAIT)
    ELSE LET parsed == ParseOf(o.text)
         IN  IF Len(parsed) < TARGET_COUNT
             THEN Continue(SHORT_WAIT)
             ELSE Return(Questions(FirstN(parsed, TARGET_COUNT)))

generate_attempt(o, att, max_retries) ==
    IF o.fault
    THEN \* except Exception
         IF att < max_retries - 1 THEN Continue(FAULT_WAIT) ELSE Return(None)
    ELSE IF IsEmptyText(o.text)
    THEN IF att < max_retries - 1 THEN Continue(SHORT_WAIT) ELSE Return(None)
    ELSE LET parsed == ParseOf(o.text)
         IN  IF Len(parsed) < TARGET_COUNT
             THEN IF att < max_retries - 1 THEN Continue(SHORT_WAIT) ELSE Return(None)
             ELSE Return(Questions(FirstN(parsed, TARGET_COUNT)))

\* The orchestrator's test "if questions and len(questions) == 200".
is_success(q) == ~q.none /\ q.list # <<>> /\ Len(q.list) = TARGET_COUNT

\* What kind of reply the outcome of a request is.
ReplyKind(o) ==
    IF o.fault THEN "fault"
    ELSE IF \A k \in 1..Len(o.text) : Strip(o.text[k]) = <<>> THEN "empty"
    ELSE IF Len(ParseOf(o.text)) < TARGET_COUNT THEN "short"
    ELSE "full"

(***************************************************************************)
(* The inputs of the model: for each tag, what the two input files hold.   *)
(***************************************************************************)
TagPool == <<<<"a">>, <<"B">>, <<"c">>, <<"D">>>>

\* "ok": an example row and an answer row; "noanswer": no answer row;
\* "blank": only an example row whose question is blank.
Kinds == {"ok", "noanswer", "blank"}

\* The examples file lists the tags in descending order.
MkExamples(kinds) ==
    [k \in 1..Len(kinds) |->
        LET t == Len(kinds) + 1 - k
        IN  [question |-> IF kinds[t] = "blank" THEN <<" ">> ELSE <<"Q", Digits[t + 1], " ">>,
             tag |-> TagPool[t]]]

RECURSIVE MkAnswers(_)
MkAnswers(kinds) ==
    IF kinds = <<>> THEN <<>>
    ELSE MkAnswers(SubSeq(kinds, 1, Len(kinds) - 1)) \o
         (IF kinds[Len(kinds)] = "noanswer" THEN <<>>
          ELSE <<[tag |-> TagPool[Len(kinds)], answer |-> <<"A", Digits[Len(kinds) + 1]>>]>>)

(***************************************************************************)
(* State.                                                                  *)
(***************************************************************************)
VARIABLES
    examples_rows,   \* EXAMPLES_FILE: its data rows
    answers_rows,    \* ANSWERS_FILE: its data rows
    service,         \* the generation service: its questions are "short" or "long"
    PROGRESS_FILE,   \* the checkpoint file
    OUTPUT_DIR,      \* the artifact directory: tag -> rows of <tag>.csv
    pc,              \* where the process is; "idle" when none runs
    site,            \* the call site of the update_progress under way
    unique_tags, tag_questions, tag_to_answer, total_tags,
    last_processed, start_index, i,
    success_count, failure_count, skipped_count,
    examples, attempt, questions,
    runs,            \* invocations of run_paraphrase_generation so far
    client_ready,    \* init_openai_client() returned True in this run
    ckpt_absent,     \* no checkpoint file existed when this run started
    replies,         \* the kinds of the replies to the requests of the
                     \* generate call under way, in order
    reply_text,      \* the text of the reply the call returned on
    waits,           \* the sleeps of the generate call under way
    raised,          \* an exception left generate_questions_with_gpt5
    gen_calls,       \* ordinals generate was called for, this run, in order
    outcome,         \* ordinal -> state of the item, this run
    saved,           \* ordinals whose artifact write completed, this run
    ckptd,           \* ordinals whose checkpoint write completed, this run
    finished,        \* ordinals fully processed since the last restart at 0
    killed,          \* the previous process was killed
    listed,          \* the lists get_unique_tags_from_questions gave the runs so far
    csv_files,       \* merge: the sorted paths of the artifact files
    merged_data,     \* merge: the rows collected so far
    output_file,     \* merge: the path run_merge writes; <<>> before it is known
    OUTPUT_FILE,     \* merge: the merged output file, the file at output_file
    merged_count,    \* merge: the value of merge_csv_files
    report,          \* merge: what validate_merged_file printed
    returned,        \* merge: the value of run_merge
    sample_call,     \* the arguments of the get_random_examples call made alone
    save_call,       \* the last two save_individual_csv calls made alone
    progress_call,   \* the last two update_progress calls made alone
    data,            \* tagging: the rows load_csv kept
    id_to_tag,       \* tagging: group id -> tag
    id_to_tag_keys,  \* tagging: list(id_to_tag), the group ids in order of insertion
    used_tags,       \* tagging: the tags given so far by generate_tags
    query_tags,      \* tagging: query -> tag
    tag_answer,      \* tagging: tag -> answer
    labels,          \* tagging: the tags _generate_tag_for_group returned
    tag_exception,   \* tagging: the exception that left the last call on the processor
    tpc,             \* tagging: where the processor is; "idle" after load_csv
    mpc              \* merge: where run_merge is; "idle" when it does not run

inputs == <<examples_rows, answers_rows, service>>

loaded == <<unique_tags, tag_questions, tag_to_answer, total_tags, last_processed, start_index>>

counts == <<success_count, failure_count, skipped_count>>

call == <<examples, attempt, questions, replies, reply_text, waits>>

history == <<client_ready, ckpt_absent, gen_calls, outcome, saved, ckptd>>

alone == <<sample_call, save_call, progress_call>>

tagger == <<data, id_to_tag, id_to_tag_keys, used_tags, query_tags, tag_answer, labels,
            tag_exception, tpc>>

merge == <<csv_files, merged_data, output_file, OUTPUT_FILE, merged_count, report, returned,
           mpc>>

vars == <<inputs, PROGRESS_FILE, OUTPUT_DIR, pc, site, loaded, i, counts, call, runs,
          raised, history, finished, killed, listed, merge, alone, tagger>>

Terminal == {"SUCCESS", "FAILED", "SKIPPED"}

\* The tag of the item under way.
tag_name == unique_tags[i + 1]

\* The memory of a process that is not running.
NoProcess ==
    /\ site = "none"
    /\ unique_tags = <<>> /\ tag_questions = EmptyDict /\ tag_to_answer = EmptyDict
    /\ total_tags = 0 /\ last_processed = -1 /\ start_index = 0 /\ i = 0
    /\ success_count = 0 /\ failure_count = 0 /\ skipped_count = 0
    /\ examples = <<>> /\ attempt = 0 /\ questions = None
    /\ replies = <<>> /\ reply_text = <<>> /\ waits = <<>>
    /\ client_ready = FALSE /\ ckpt_absent = FALSE
    /\ gen_calls = <<>> /\ outcome = <<>> /\ saved = {} /\ ckptd = {}

\* The process ends: its memory is gone.
ProcessEnds ==
    /\ site' = "none"
    /\ unique_tags' = <<>> /\ tag_questions' = EmptyDict /\ tag_to_answer' = EmptyDict
    /\ total_tags' = 0 /\ last_processed' = -1 /\ start_index' = 0 /\ i' = 0
    /\ success_count' = 0 /\ failure_count' = 0 /\ skipped_count' = 0
    /\ examples' = <<>> /\ attempt' = 0 /\ questions' = None
    /\ replies' = <<>> /\ reply_text' = <<>> /\ waits' = <<>>
    /\ client_ready' = FALSE /\ ckpt_absent' = FALSE
    /\ gen_calls' = <<>> /\ outcome' = <<>> /\ saved' = {} /\ ckptd' = {}

\* What validate_merged_file has printed when it has not run.
NoReport == [done |-> FALSE, actual_count |-> 0, count_matches |-> FALSE,
             tags_with_wrong_count |-> {}, invalid_count |-> 0]

\* get_random_examples has not been called alone.
NoSample == [done |-> FALSE, tag_name |-> <<>>, num_examples |-> 0]

\* save_individual_csv has not been called alone.
NoCall == [called |-> FALSE, tag_name |-> <<>>, questions |-> <<>>, before |-> EmptyDict]

NoSave == [prior |-> NoCall, last |-> NoCall]

\* update_progress has not been called alone.
NoWrite == [called |-> FALSE, index |-> -1, before |-> NoFile]

NoUpdate == [prior |-> NoWrite, last |-> NoWrite]

\* The tagging stage has loaded nothing and has not run.
NoException == [type |-> "", key |-> <<>>]

NoTagging ==
    /\ data = <<>> /\ id_to_tag = EmptyDict /\ id_to_tag_keys = <<>> /\ used_tags = {}
    /\ query_tags = EmptyDict /\ tag_answer = EmptyDict /\ labels = <<>>
    /\ tag_exception = NoException /\ tpc = "idle"

\* The merge stage has not run.
NoMerge ==
    /\ csv_files = <<>> /\ merged_data = <<>> /\ output_file = <<>> /\ OUTPUT_FILE = NoFile
    /\ merged_count = 0 /\ report = NoReport /\ returned = "" /\ mpc = "idle"

\* The checkpoint before the first invocation: none, or the one a run on
\* an earlier, larger input left.
InitialCheckpoints == {NoFile, update_progress(MaxTags)}

Init ==
    /\ \E kinds \in UNION {[1..m -> Kinds] : m \in 0..MaxTags} :
          /\ examples_rows = MkExamples(kinds)
          /\ answers_rows = MkAnswers(kinds)
          /\ service \in ServicesFor(kinds)
          /\ PROGRESS_FILE \in InitialCheckpoints
          /\ finished = {}
    /\ OUTPUT_DIR = EmptyDict
    /\ pc = "idle"
    /\ NoProcess
    /\ runs = 0
    /\ raised = FALSE
    /\ killed = FALSE
    /\ listed = {}
    /\ NoMerge
    /\ sample_call = NoSample
    /\ save_call = NoSave
    /\ progress_call = NoUpdate
    /\ NoTagging

(***************************************************************************)
(* run_paraphrase_generation, step by step.  The steps are cut where the   *)
(* process can be killed with a different durable result: at every file    *)
(* open, file close and service request.                                   *)
(***************************************************************************)
\* The values of test_tag_count the runs in test mode are given.
TestTagCounts == {1}

\* init_openai_client() returns False (no client can be made, or the key is
\* not set): the run returns (0, 0, 0) before it loads or writes anything.
ClientFails ==
    /\ pc = "idle"
    /\ runs < MaxRuns
    /\ runs' = runs + 1
    /\ pc' = "done"
    /\ UNCHANGED <<inputs, PROGRESS_FILE, OUTPUT_DIR, site, loaded, i, counts, call, raised,
                   history, finished, killed>>
    /\ UNCHANGED <<listed, merge, alone, tagger>>

\* The process starts: loads the inputs, cuts the work list in test mode,
\* reads the checkpoint and picks the resume index (a stale checkpoint
\* makes it restart at 0).
StartRun ==
    /\ pc = "idle"
    /\ runs < MaxRuns
    /\ runs' = runs + 1
    /\ \E tags \in get_unique_tags_from_questions(examples_rows),
          test_mode \in BOOLEAN, test_tag_count \in TestTagCounts :
          /\ unique_tags' = IF test_mode THEN FirstN(tags, test_tag_count) ELSE tags
          /\ total_tags' = Len(unique_tags')
          /\ listed' = listed \cup {tags}
    /\ tag_questions' = load_example_questions(examples_rows)
    /\ tag_to_answer' = load_answers_lookup(answers_rows)
    /\ last_processed' = get_last_processed_index(PROGRESS_FILE)
    /\ LET resume == resume_index(last_processed', total_tags')
       IN  /\ start_index' = resume.start
           /\ i' = resume.start
           /\ IF resume.reset
              THEN site' = "reset" /\ pc' = "up_open" /\ finished' = {}
              ELSE site' = "none" /\ pc' = "loop" /\ finished' = finished
    /\ client_ready' = TRUE
    /\ ckpt_absent' = ~PROGRESS_FILE.exists
    /\ success_count' = 0 /\ failure_count' = 0 /\ skipped_count' = 0
    /\ gen_calls' = <<>>
    /\ outcome' = [j \in 0..(total_tags' - 1) |-> "PENDING"]
    /\ saved' = {} /\ ckptd' = {}
    /\ raised' = FALSE
    /\ UNCHANGED <<inputs, PROGRESS_FILE, OUTPUT_DIR, call, killed>>
    /\ UNCHANGED <<merge, alone, tagger>>

\* update_progress: open(PROGRESS_FILE, 'w') creates or truncates the file.
UpdateProgressOpen ==
    /\ pc = "up_open"
    /\ PROGRESS_FILE' = update_progress_open
    /\ pc' = "up_write"
    /\ UNCHANGED <<inputs, OUTPUT_DIR, site, loaded, i, counts, call, runs, raised,
                   history, finished, killed>>
    /\ UNCHANGED <<listed, merge, alone, tagger>>

\* update_progress: the text is written and the file closed; the caller
\* goes on (after a success: to counting it).
UpdateProgressClose ==
    /\ pc = "up_write"
    /\ PROGRESS_FILE' = update_progress(IF site = "reset" THEN -1 ELSE i)
    /\ IF site = "reset"
       THEN /\ pc' = "loop"
            /\ UNCHANGED <<i, ckptd, finished>>
       ELSE /\ ckptd' = ckptd \cup {get_last_processed_index(PROGRESS_FILE')}
            /\ finished' = finished \cup {get_last_processed_index(PROGRESS_FILE')}
            /\ IF site = "success"
               THEN pc' = "counted" /\ i' = i
               ELSE pc' = "loop" /\ i' = i + 1
    /\ site' = IF site = "success" THEN site ELSE "none"
    /\ UNCHANGED <<inputs, OUTPUT_DIR, loaded, counts, call, runs, raised,
                   client_ready, ckpt_absent, gen_calls, outcome, saved, killed>>
    /\ UNCHANGED <<listed, merge, alone, tagger>>

\* The tag has no answer: skipped, then checkpointed.
SkipNoAnswer ==
    /\ pc = "loop"
    /\ i < total_tags
    /\ tag_name \notin DOMAIN tag_to_answer
    /\ skipped_count' = skipped_count + 1
    /\ outcome' = [outcome EXCEPT ![i] = "SKIPPED"]
    /\ site' = "skip"
    /\ pc' = "up_open"
    /\ UNCHANGED <<inputs, PROGRESS_FILE, OUTPUT_DIR, loaded, i, success_count,
                   failure_count, call, runs, raised, client_ready, ckpt_absent, gen_calls, saved,
                   ckptd, finished, killed>>
    /\ UNCHANGED <<listed, merge, alone, tagger>>

\* The draw of examples is empty: skipped, then checkpointed.
SkipNoExamples ==
    /\ pc = "loop"
    /\ i < total_tags
    /\ tag_name \in DOMAIN tag_to_answer
    /\ \E ex \in get_random_examples(tag_questions, tag_name, NUM_EXAMPLES) : ex = <<>>
    /\ skipped_count' = skipped_count + 1
    /\ outcome' = [outcome EXCEPT ![i] = "SKIPPED"]
    /\ site' = "skip"
    /\ pc' = "up_open"
    /\ UNCHANGED <<inputs, PROGRESS_FILE, OUTPUT_DIR, loaded, i, success_count,
                   failure_count, call, runs, raised, client_ready, ckpt_absent, gen_calls, saved,
                   ckptd, finished, killed>>
    /\ UNCHANGED <<listed, merge, alone, tagger>>

\* Variant: generation is called without looking up the answer.
CallGenerate_NoAnswerCheck ==
    /\ pc = "loop"
    /\ i < total_tags
    /\ \E ex \in get_random_examples(tag_questions, tag_name, NUM_EXAMPLES) :
          /\ ex # <<>>
          /\ examples' = ex
    /\ attempt' = 0
    /\ replies' = <<>>
    /\ reply_text' = <<>>
    /\ waits' = <<>>
    /\ questions' = None
    /\ gen_calls' = Append(gen_calls, i)
    /\ outcome' = [outcome EXCEPT ![i] = "RUNNING"]
    /\ pc' = "gen"
    /\ UNCHANGED <<inputs, PROGRESS_FILE, OUTPUT_DIR, site, loaded, i, counts, runs,
                   raised, client_ready, ckpt_absent, saved, ckptd, finished, killed>>
    /\ UNCHANGED <<listed, merge, alone, tagger>>

\* Examples were drawn: generate_questions_with_gpt5 is called.
CallGenerate ==
    /\ pc = "loop"
    /\ i < total_tags
    /\ tag_name \in DOMAIN tag_to_answer
    /\ \E ex \in get_random_examples(tag_questions, tag_name, NUM_EXAMPLES) :
          /\ ex # <<>>
          /\ examples' = ex
    /\ attempt' = 0
    /\ replies' = <<>>
    /\ reply_text' = <<>>
    /\ waits' = <<>>
    /\ questions' = None
    /\ gen_calls' = Append(gen_calls, i)
    /\ outcome' = [outcome EXCEPT ![i] = "RUNNING"]
    /\ pc' = "gen"
    /\ UNCHANGED <<inputs, PROGRESS_FILE, OUTPUT_DIR, site, loaded, i, counts, runs,
                   raised, client_ready, ckpt_absent, saved, ckptd, finished, killed>>
    /\ UNCHANGED <<listed, merge, alone, tagger>>

\* One iteration of the retry loop: a request, then what the code does with
\* its outcome.  The loop running out returns None.
Attempt ==
    /\ pc = "gen"
    /\ attempt < MAX_RETRIES
    /\ \E o \in OutcomesOf(service) :
          LET step == generate_attempt(o, attempt, MAX_RETRIES)
          IN  /\ replies' = Append(replies, ReplyKind(o))
              /\ reply_text' = IF step.kind = "return" THEN o.text ELSE <<>>
              /\ IF step.kind = "continue"
                 THEN /\ waits' = Append(waits, step.wait)
                      /\ attempt' = attempt + 1
                      /\ questions' = questions
                      /\ pc' = IF attempt + 1 < MAX_RETRIES THEN "gen" ELSE "ret"
                      /\ raised' = raised
                 ELSE IF step.kind = "return"
                 THEN /\ questions' = step.value
                      /\ pc' = "ret"
                      /\ UNCHANGED <<waits, attempt, raised>>
                 ELSE \* the exception ends the process with a traceback
                      /\ raised' = TRUE
                      /\ pc' = "crashed"
                      /\ UNCHANGED <<waits, attempt, questions>>
    /\ UNCHANGED <<inputs, PROGRESS_FILE, OUTPUT_DIR, site, loaded, i, counts, examples,
                   runs, history, finished, killed>>
    /\ UNCHANGED <<listed, merge, alone, tagger>>

\* Variant: any value counts as a success and is saved.
JudgeSuccess_Always ==
    /\ pc = "ret"
    /\ pc' = "save_open"
    /\ attempt' = 0 /\ replies' = <<>> /\ reply_text' = <<>> /\ waits' = <<>>
    /\ UNCHANGED <<inputs, PROGRESS_FILE, OUTPUT_DIR, site, loaded, i, counts, examples,
                   questions, runs, raised, history, finished, killed>>
    /\ UNCHANGED <<listed, merge, alone, tagger>>

\* "if questions and len(questions) == 200": the artifact is to be saved.
\* (The locals of the finished generate call are gone.)
JudgeSuccess ==
    /\ pc = "ret"
    /\ is_success(questions)
    /\ pc' = "save_open"
    /\ attempt' = 0 /\ replies' = <<>> /\ reply_text' = <<>> /\ waits' = <<>>
    /\ UNCHANGED <<inputs, PROGRESS_FILE, OUTPUT_DIR, site, loaded, i, counts, examples,
                   questions, runs, raised, history, finished, killed>>
    /\ UNCHANGED <<listed, merge, alone, tagger>>

\* Variant: a failed item is counted but not checkpointed.
JudgeFailure_NoCheckpoint ==
    /\ pc = "ret"
    /\ ~is_success(questions)
    /\ failure_count' = failure_count + 1
    /\ outcome' = [outcome EXCEPT ![i] = "FAILED"]
    /\ i' = i + 1
    /\ pc' = "loop"
    /\ attempt' = 0 /\ replies' = <<>> /\ reply_text' = <<>> /\ waits' = <<>>
    /\ UNCHANGED <<inputs, PROGRESS_FILE, OUTPUT_DIR, site, unique_tags, tag_questions,
                   tag_to_answer, total_tags, last_processed, start_index, success_count,
                   skipped_count, examples, questions, runs, raised, client_ready, ckpt_absent,
                   gen_calls, saved, ckptd, finished, killed>>
    /\ UNCHANGED <<listed, merge, alone, tagger>>

\* Variant: a failed item ends the process.
JudgeFailure_Abort ==
    /\ pc = "ret"
    /\ ~is_success(questions)
    /\ failure_count' = failure_count + 1
    /\ outcome' = [outcome EXCEPT ![i] = "FAILED"]
    /\ pc' = "crashed"
    /\ attempt' = 0 /\ replies' = <<>> /\ reply_text' = <<>> /\ waits' = <<>>
    /\ UNCHANGED <<inputs, PROGRESS_FILE, OUTPUT_DIR, site, loaded, i, success_count,
                   skipped_count, examples, questions, runs, raised, client_ready, ckpt_absent,
                   gen_calls, saved, ckptd, finished, killed>>
    /\ UNCHANGED <<listed, merge, alone, tagger>>

\* Variant: a failed item is tried again.
JudgeFailure_Retry ==
    /\ pc = "ret"
    /\ ~is_success(questions)
    /\ failure_count' = failure_count + 1
    /\ outcome' = [outcome EXCEPT ![i] = "FAILED"]
    /\ pc' = "loop"
    /\ attempt' = 0 /\ replies' = <<>> /\ reply_text' = <<>> /\ waits' = <<>>
    /\ UNCHANGED <<inputs, PROGRESS_FILE, OUTPUT_DIR, site, loaded, i, success_count,
                   skipped_count, examples, questions, runs, raised, client_ready, ckpt_absent,
                   gen_calls, saved, ckptd, finished, killed>>
    /\ UNCHANGED <<listed, merge, alone, tagger>>

\* else: the item failed, and is checkpointed.
JudgeFailure ==
    /\ pc = "ret"
    /\ ~is_success(questions)
    /\ failure_count' = failure_count + 1
    /\ outcome' = [outcome EXCEPT ![i] = "FAILED"]
    /\ site' = "failure"
    /\ pc' = "up_open"
    /\ attempt' = 0 /\ replies' = <<>> /\ reply_text' = <<>> /\ waits' = <<>>
    /\ UNCHANGED <<inputs, PROGRESS_FILE, OUTPUT_DIR, loaded, i, success_count,
                   skipped_count, examples, questions, runs, raised, client_ready, ckpt_absent,
                   gen_calls, saved, ckptd, finished, killed>>
    /\ UNCHANGED <<listed, merge, alone, tagger>>

\* Variant: the rows are added to the file the tag has.
WithFile_Append(dir, tag, rows) ==
    [t \in DOMAIN dir \cup {tag} |->
        IF t = tag THEN (IF t \in DOMAIN dir THEN dir[t] ELSE <<>>) \o rows ELSE dir[t]]

\* The content of OUTPUT_DIR with the file of tag set to rows.
WithFile(dir, tag, rows) ==
    [t \in DOMAIN dir \cup {tag} |-> IF t = tag THEN rows ELSE dir[t]]

\* save_individual_csv: open(filepath, 'w') creates or truncates the file.
SaveOpen ==
    /\ pc = "save_open"
    /\ OUTPUT_DIR' = WithFile(OUTPUT_DIR, tag_name, <<>>)
    /\ pc' = "save_write"
    /\ UNCHANGED <<inputs, PROGRESS_FILE, site, loaded, i, counts, call, runs, raised,
                   history, finished, killed>>
    /\ UNCHANGED <<listed, merge, alone, tagger>>

\* save_individual_csv: the buffer fills while rows are written, and the
\* next part of the file reaches the disk.  It happens when lines are left
\* for the close to write; rows that fit the buffer reach the disk at the
\* close only.
SaveFlush ==
    /\ pc = "save_write"
    /\ \E sizes \in {LineSizes(tag_name, questions.list)} :
          \E n \in {FlushedRows(sizes, Len(OUTPUT_DIR[tag_name]))} :
             /\ n < Len(sizes)
             /\ OUTPUT_DIR' = WithFile(OUTPUT_DIR, tag_name,
                                       SubSeq(ArtifactRows(tag_name, questions.list), 1, n))
    /\ UNCHANGED <<inputs, PROGRESS_FILE, pc, site, loaded, i, counts, call, runs, raised,
                   history, finished, killed>>
    /\ UNCHANGED <<listed, merge, alone, tagger>>

\* save_individual_csv: the file is closed with all its rows; the
\* orchestrator then calls update_progress(i).
SaveClose ==
    /\ pc = "save_write"
    /\ OUTPUT_DIR' = WithFile(OUTPUT_DIR, tag_name, ArtifactRows(tag_name, questions.list))
    /\ saved' = saved \cup {i}
    /\ outcome' = [outcome EXCEPT ![i] = "SUCCESS"]
    /\ site' = "success"
    /\ pc' = "up_open"
    /\ UNCHANGED <<inputs, PROGRESS_FILE, loaded, i, counts, call, runs, raised,
                   client_ready, ckpt_absent, gen_calls, ckptd, finished, killed>>
    /\ UNCHANGED <<listed, merge, alone, tagger>>

\* Variant: a success is checkpointed but not counted.
CountSuccess_NotCounted ==
    /\ pc = "counted"
    /\ i' = i + 1
    /\ site' = "none"
    /\ pc' = "loop"
    /\ UNCHANGED <<inputs, PROGRESS_FILE, OUTPUT_DIR, loaded, counts, call, runs, raised,
                   history, finished, killed>>
    /\ UNCHANGED <<listed, merge, alone, tagger>>

\* success_count += 1 (and the pause), after the checkpoint of a success.
CountSuccess ==
    /\ pc = "counted"
    /\ success_count' = success_count + 1
    /\ i' = i + 1
    /\ site' = "none"
    /\ pc' = "loop"
    /\ UNCHANGED <<inputs, PROGRESS_FILE, OUTPUT_DIR, loaded, failure_count,
                   skipped_count, call, runs, raised, history, finished, killed>>
    /\ UNCHANGED <<listed, merge, alone, tagger>>

\* Variant: at the end of the list the loop starts over at start_index.
Finish_Wrap ==
    /\ pc = "loop"
    /\ i >= total_tags
    /\ i' = start_index
    /\ UNCHANGED <<inputs, PROGRESS_FILE, OUTPUT_DIR, pc, site, unique_tags, tag_questions,
                   tag_to_answer, total_tags, last_processed, start_index, counts, call,
                   runs, raised, history, finished, killed>>
    /\ UNCHANGED <<listed, merge, alone, tagger>>

\* The loop is over: the run returns its three counts.
Finish ==
    /\ pc = "loop"
    /\ i >= total_tags
    /\ pc' = "done"
    /\ UNCHANGED <<inputs, PROGRESS_FILE, OUTPUT_DIR, site, loaded, i, counts, call, runs,
                   raised, history, finished, killed>>
    /\ UNCHANGED <<listed, merge, alone, tagger>>

\* The process ends after returning.
Exit ==
    /\ pc = "done"
    /\ pc' = "idle"
    /\ ProcessEnds
    /\ killed' = FALSE
    /\ UNCHANGED <<inputs, PROGRESS_FILE, OUTPUT_DIR, runs, raised, finished>>
    /\ UNCHANGED <<listed, merge, alone, tagger>>

\* The process is killed: only the files remain.
Kill ==
    /\ pc \notin {"idle", "done", "crashed"}
    /\ pc' = "idle"
    /\ ProcessEnds
    /\ killed' = TRUE
    /\ UNCHANGED <<inputs, PROGRESS_FILE, OUTPUT_DIR, runs, raised, finished>>
    /\ UNCHANGED <<listed, merge, alone, tagger>>

Next ==
    \/ ClientFails
    \/ StartRun
    \/ UpdateProgressOpen
    \/ UpdateProgressClose
    \/ SkipNoAnswer
    \/ SkipNoExamples
    \/ CallGenerate
    \/ Attempt
    \/ JudgeSuccess
    \/ JudgeFailure
    \/ SaveOpen
    \/ SaveFlush
    \/ SaveClose
    \/ CountSuccess
    \/ Finish
    \/ Exit
    \/ Kill

Spec == Init /\ [][Next]_vars

\* The steps of processes that are not killed.
NextRun ==
    \/ ClientFails
    \/ StartRun
    \/ UpdateProgressOpen
    \/ UpdateProgressClose
    \/ SkipNoAnswer
    \/ SkipNoExamples
    \/ CallGenerate
    \/ Attempt
    \/ JudgeSuccess
    \/ JudgeFailure
    \/ SaveOpen
    \/ SaveFlush
    \/ SaveClose
    \/ CountSuccess
    \/ Finish
    \/ Exit

\* The first invocation finds no checkpoint.
InitLive == Init /\ PROGRESS_FILE = NoFile

\* Runs that are not killed: the process, single-threaded, always takes
\* its next step, and the service answers every request (with a response
\* or a fault).
SpecLive == InitLive /\ [][NextRun]_vars /\ WF_vars(NextRun)

(***************************************************************************)
(* The work list on examples files whose tags collide: tags that differ by *)
(* letter case or by surrounding blanks, repeated tags, the excluded tag.  *)
(* No tag has an answer, so every item is skipped and checkpointed.        *)
(***************************************************************************)
\* The tag fields of the rows.
TagTexts == {<<"a">>, <<"A">>, <<" ", "a">>, <<"b">>, <<"B">>, <<" ">>, Str_fraction}

ExampleFiles ==
    UNION {[1..m -> [question : {<<"Q", "1">>}, tag : TagTexts]] : m \in 1..MaxRows}

InitTags ==
    /\ examples_rows \in ExampleFiles
    /\ answers_rows = <<>>
    /\ PROGRESS_FILE = NoFile
    /\ finished = {}
    /\ OUTPUT_DIR = EmptyDict
    /\ pc = "idle"
    /\ NoProcess
    /\ runs = 0
    /\ raised = FALSE
    /\ killed = FALSE
    /\ service = "short"
    /\ listed = {}
    /\ NoMerge
    /\ sample_call = NoSample
    /\ save_call = NoSave
    /\ progress_call = NoUpdate
    /\ NoTagging

NextTags ==
    \/ ClientFails
    \/ StartRun
    \/ UpdateProgressOpen
    \/ UpdateProgressClose
    \/ SkipNoAnswer
    \/ Finish
    \/ Exit
    \/ Kill

SpecTags == InitTags /\ [][NextTags]_vars

(***************************************************************************)
(* The merge stage (merge_results.py).  A path is modelled by its file     *)
(* name, the directory being the same for all.                             *)
(***************************************************************************)
CsvSuffix == <<".", "c", "s", "v">>

\* filename.endswith(suffix)
EndsWith(s, suffix) ==
    Len(s) >= Len(suffix) /\ SubSeq(s, Len(s) - Len(suffix) + 1, Len(s)) = suffix

\* The name save_individual_csv gives the file of a tag.
FileName(tag) == tag \o CsvSuffix

\* The tag whose file has the given name.
TagOfPath(path) == SubSeq(path, 1, Len(path) - Len(CsvSuffix))

\* The directories of the pipeline, as lists of path components:
\* run_full_pipeline passes <output_dir>/individual_tags to run_merge.
ParaphraseOutputDir == <<"paraphrased_output">>

InputDir == Append(ParaphraseOutputDir, "individual_tags")

\* os.path.dirname
dirname(path) == SubSeq(path, 1, Len(path) - 1)

\* The days on which run_merge runs.
Days == {[year |-> 2026, month |-> 10, day |-> 31], [year |-> 2026, month |-> 11, day |-> 1]}

\* A number in two digits (%m, %d).
TwoDigits(n) == IF n < 10 THEN <<"0">> \o NatToStr(n) ELSE NatToStr(n)

\* datetime.strftime("%Y-%m-%d"), for years of four digits.
strftime(date) ==
    NatToStr(date.year) \o <<"-">> \o TwoDigits(date.month) \o <<"-">> \o TwoDigits(date.day)

Str_merged_dataset ==
    <<"m", "e", "r", "g", "e", "d", "_", "d", "a", "t", "a", "s", "e", "t", "_">>

\* run_merge's default for output_file: merged_dataset_<today>.csv beside
\* the input directory.
default_output_file(input_dir, today) ==
    Append(dirname(input_dir), Str_merged_dataset \o strftime(today) \o CsvSuffix)

\* The values run_merge is given for output_file: None (<<>>), as
\* run_full_pipeline calls it, or a path.
OutputFileArguments == {<<>>, <<<<"o", "u", "t">> \o CsvSuffix>>}

\* The path names a file of the directory.
InDirectory(path, directory) == path # <<>> /\ dirname(path) = directory

\* get_sorted_csv_files: the .csv files of the directory, sorted as strings.
get_sorted_csv_files(directory) ==
    LET names == {n \in {FileName(t) : t \in DOMAIN directory} : EndsWith(n, CsvSuffix)}
    IN  CHOOSE s \in Orderings(names) :
            \A a, b \in 1..Len(s) : a < b => StrLess(s[a], s[b])

\* csv.DictReader on a file whose first row is HeaderRow: its data rows.
DictReader(content) ==
    [k \in 1..(Len(content) - 1) |->
        [question |-> content[k + 1][1], tag |-> content[k + 1][2]]]

read_individual_csv(directory, filepath) == DictReader(directory[TagOfPath(filepath)])

\* Variant: the first data row of every file is taken for a header.
RECURSIVE merged_rows_SkipRow(_, _)
merged_rows_SkipRow(directory, files) ==
    IF files = <<>> THEN <<>>
    ELSE LET read == read_individual_csv(directory, files[Len(files)])
             rows == IF read = <<>> THEN <<>> ELSE Tail(read)
             before == merged_rows_SkipRow(directory, SubSeq(files, 1, Len(files) - 1))
         IN  IF rows # <<>> THEN before \o rows ELSE before

\* Variant: the rows of each file are put before those collected so far.
RECURSIVE merged_rows_Prepend(_, _)
merged_rows_Prepend(directory, files) ==
    IF files = <<>> THEN <<>>
    ELSE LET rows == read_individual_csv(directory, files[Len(files)])
             before == merged_rows_Prepend(directory, SubSeq(files, 1, Len(files) - 1))
         IN  IF rows # <<>> THEN rows \o before ELSE before

\* The loop of merge_csv_files: merged_data after the given files.
RECURSIVE merged_rows(_, _)
merged_rows(directory, files) ==
    IF files = <<>> THEN <<>>
    ELSE LET rows == read_individual_csv(directory, files[Len(files)])
             before == merged_rows(directory, SubSeq(files, 1, Len(files) - 1))
         IN  IF rows # <<>> THEN before \o rows ELSE before

\* What merge_csv_files writes to the output file.
merged_content(all_data) ==
    IF all_data # <<>>
    THEN <<HeaderRow>> \o [k \in 1..Len(all_data) |-> <<all_data[k].question, all_data[k].tag>>]
    ELSE <<>>

\* Counter(tags)[tag]
TagCount(rows, tag) == Cardinality({k \in 1..Len(rows) : rows[k].tag = tag})

\* validate_merged_file: what it finds (and prints); it returns nothing.
validate_merged_file(file, expected_count) ==
    LET rows == DictReader(file.content)
        tags == {rows[k].tag : k \in 1..Len(rows)}
    IN  [done |-> TRUE,
         actual_count |-> Len(rows),
         count_matches |-> Len(rows) = expected_count,
         tags_with_wrong_count |-> {t \in tags : TagCount(rows, t) # ROWS_PER_TAG},
         invalid_count |->
             Cardinality({k \in 1..Len(rows) : rows[k].question = <<>> \/ rows[k].tag = <<>>})]

\* An artifact file of n data rows; one whose first question is empty.
Artifact(tag, n) == ArtifactRows(tag, [j \in 1..n |-> Body(j)])

ArtifactWithBlank(tag, n) ==
    ArtifactRows(tag, [j \in 1..n |-> IF j = 1 THEN <<>> ELSE Body(j)])

\* The contents an artifact file is given in the merge model: complete
\* at the generation target or at ROWS_PER_TAG rows, a row short of either,
\* one with an empty field, or left empty by a killed write.
ArtifactContents(tag) ==
    {Artifact(tag, n) : n \in {TARGET_COUNT, TARGET_COUNT - 1, ROWS_PER_TAG, ROWS_PER_TAG - 1}}
    \cup {ArtifactWithBlank(tag, ROWS_PER_TAG), <<>>}

\* The tags of the artifact files of the merge model: one is a prefix of
\* another, two differ in case.
MergeTags == {<<"a">>, <<"a", "-", "b">>, <<"B">>}

\* The artifact directories of the merge model: at most MaxFiles files.
Directories ==
    UNION {{d \in [T -> UNION {ArtifactContents(t) : t \in T}] :
               \A t \in T : d[t] \in ArtifactContents(t)} :
              T \in {S \in SUBSET MergeTags : Cardinality(S) <= MaxFiles}}

InitMerge ==
    /\ examples_rows = <<>> /\ answers_rows = <<>>
    /\ PROGRESS_FILE = NoFile
    /\ finished = {}
    /\ OUTPUT_DIR \in Directories
    /\ pc = "idle"
    /\ NoProcess
    /\ runs = 0
    /\ raised = FALSE
    /\ killed = FALSE
    /\ service = "short"
    /\ listed = {}
    /\ NoMerge
    /\ sample_call = NoSample
    /\ save_call = NoSave
    /\ progress_call = NoUpdate
    /\ NoTagging

generation == <<inputs, PROGRESS_FILE, pc, site, loaded, i, counts, call, runs, raised,
                history, finished, killed, listed, alone, tagger>>

\* run_merge starts: an output_file left out gets its default, which has
\* the day of the run in its name; the files are listed; without files it
\* returns None.
ListFiles ==
    /\ mpc = "idle"
    /\ returned = ""
    /\ \E argument \in OutputFileArguments, today \in Days :
          output_file' = IF argument = <<>> THEN default_output_file(InputDir, today)
                         ELSE argument
    /\ csv_files' = get_sorted_csv_files(OUTPUT_DIR)
    /\ IF csv_files' = <<>>
       THEN returned' = "None" /\ mpc' = "done"
       ELSE returned' = returned /\ mpc' = "read"
    /\ UNCHANGED <<generation, OUTPUT_DIR, merged_data, OUTPUT_FILE, merged_count, report>>

\* merge_csv_files: the rows of all files are collected.
ReadFiles ==
    /\ mpc = "read"
    /\ merged_data' = merged_rows(OUTPUT_DIR, csv_files)
    /\ mpc' = "write_open"
    /\ UNCHANGED <<generation, output_file, OUTPUT_DIR, csv_files, OUTPUT_FILE, merged_count,
                   report, returned>>

\* merge_csv_files: open(output_file, 'w') creates or truncates the file.
WriteOpen ==
    /\ mpc = "write_open"
    /\ OUTPUT_FILE' = File(<<>>)
    /\ mpc' = "write"
    /\ UNCHANGED <<generation, output_file, OUTPUT_DIR, csv_files, merged_data, merged_count,
                   report, returned>>

\* Variant: the merged file is written into the artifact directory.
WriteClose_InPlace ==
    /\ mpc = "write"
    /\ OUTPUT_FILE' = File(merged_content(merged_data))
    /\ OUTPUT_DIR' = WithFile(OUTPUT_DIR, <<"m", "e", "r", "g", "e", "d">>,
                              merged_content(merged_data))
    /\ merged_count' = Len(merged_data)
    /\ mpc' = "validate"
    /\ UNCHANGED <<generation, output_file, csv_files, merged_data, report, returned>>

\* merge_csv_files: the rows are written, the file is closed, the number
\* of rows is returned.
WriteClose ==
    /\ mpc = "write"
    /\ OUTPUT_FILE' = File(merged_content(merged_data))
    /\ merged_count' = Len(merged_data)
    /\ mpc' = "validate"
    /\ UNCHANGED <<generation, output_file, OUTPUT_DIR, csv_files, merged_data, report, returned>>

\* Variant: a validation that finds something removes the merged file and
\* makes run_merge return None.
Validate_Gating ==
    /\ mpc = "validate"
    /\ report' = validate_merged_file(OUTPUT_FILE, merged_count)
    /\ IF report'.tags_with_wrong_count # {} \/ report'.invalid_count > 0
       THEN OUTPUT_FILE' = NoFile /\ returned' = "None" /\ mpc' = "done"
       ELSE OUTPUT_FILE' = OUTPUT_FILE /\ returned' = returned /\ mpc' = "validated"
    /\ UNCHANGED <<generation, output_file, OUTPUT_DIR, csv_files, merged_data, merged_count>>

\* run_merge calls validate_merged_file(output_file, merged_count).
Validate ==
    /\ mpc = "validate"
    /\ report' = validate_merged_file(OUTPUT_FILE, merged_count)
    /\ mpc' = "validated"
    /\ UNCHANGED <<generation, output_file, OUTPUT_DIR, csv_files, merged_data, OUTPUT_FILE,
                   merged_count, returned>>

\* run_merge returns output_file.
ReturnMerge ==
    /\ mpc = "validated"
    /\ returned' = "output_file"
    /\ mpc' = "done"
    /\ UNCHANGED <<generation, output_file, OUTPUT_DIR, csv_files, merged_data, OUTPUT_FILE,
                   merged_count, report>>

NextMerge ==
    \/ ListFiles
    \/ ReadFiles
    \/ WriteOpen
    \/ WriteClose
    \/ Validate
    \/ ReturnMerge

SpecMerge == InitMerge /\ [][NextMerge]_vars

(***************************************************************************)
(* get_random_examples called alone, on the examples of bounded files and  *)
(* with small values of num_examples, so that a tag has more examples than *)
(* are asked for.                                                          *)
(***************************************************************************)
\* The question fields of the rows: two questions and a blank one.
SampleQuestions == {<<"Q", "1">>, <<"Q", "2", " ">>, <<" ">>}

\* The tag fields of the rows.
SampleTags == {<<"a">>, <<"B">>}

\* The examples files: up to MaxRows + 1 rows.
SampleFiles ==
    UNION {[1..m -> [question : SampleQuestions, tag : SampleTags]] : m \in 0..(MaxRows + 1)}

InitSample ==
    /\ examples_rows \in SampleFiles
    /\ answers_rows = <<>>
    /\ PROGRESS_FILE = NoFile
    /\ finished = {}
    /\ OUTPUT_DIR = EmptyDict
    /\ pc = "idle"
    /\ NoProcess
    /\ runs = 0
    /\ raised = FALSE
    /\ killed = FALSE
    /\ service = "short"
    /\ listed = {}
    /\ NoMerge
    /\ sample_call = NoSample
    /\ save_call = NoSave
    /\ progress_call = NoUpdate
    /\ NoTagging

\* tag_questions = load_example_questions(EXAMPLES_FILE)
LoadExamples ==
    /\ pc = "idle"
    /\ tag_questions' = load_example_questions(examples_rows)
    /\ pc' = "examples_loaded"
    /\ UNCHANGED <<inputs, PROGRESS_FILE, OUTPUT_DIR, site, unique_tags, tag_to_answer,
                   total_tags, last_processed, start_index, i, counts, call, runs,
                   raised, history, finished, killed, listed, merge, alone, tagger>>

\* examples = get_random_examples(tag_questions, tag, k), for a tag of the
\* file or a tag the file does not have.
SampleExamples ==
    /\ pc = "examples_loaded"
    /\ \E tag \in SampleTags \cup {<<"c">>}, k \in 0..MaxRows :
          /\ examples' \in get_random_examples(tag_questions, tag, k)
          /\ sample_call' = [done |-> TRUE, tag_name |-> tag, num_examples |-> k]
    /\ pc' = "sampled"
    /\ UNCHANGED <<inputs, PROGRESS_FILE, OUTPUT_DIR, site, loaded, i, counts, attempt,
                   questions, replies, reply_text, waits, runs, raised, history,
                   finished, killed, listed, merge, save_call, progress_call, tagger>>

NextSample ==
    \/ LoadExamples
    \/ SampleExamples

SpecSample == InitSample /\ [][NextSample]_vars

(***************************************************************************)
(* save_individual_csv called alone by a run, for any item of its work     *)
(* list and with any short list of questions, once and then once more.     *)
(***************************************************************************)
\* The lists of questions: up to MaxRows of them, repeats included.
SaveTexts ==
    UNION {[1..n -> {<<"Q", "1">>, <<"Q", "2">>}] : n \in 0..MaxRows}

InitSave ==
    /\ \E kinds \in UNION {[1..m -> {"ok"}] : m \in 1..MaxTags} :
          /\ examples_rows = MkExamples(kinds)
          /\ answers_rows = MkAnswers(kinds)
    /\ PROGRESS_FILE = NoFile
    /\ finished = {}
    /\ OUTPUT_DIR = EmptyDict
    /\ pc = "idle"
    /\ NoProcess
    /\ runs = 0
    /\ raised = FALSE
    /\ killed = FALSE
    /\ service = "short"
    /\ listed = {}
    /\ NoMerge
    /\ sample_call = NoSample
    /\ save_call = NoSave
    /\ progress_call = NoUpdate
    /\ NoTagging

\* save_individual_csv(tag_name, questions) is called.
CallSave ==
    /\ pc = "loop"
    /\ ~save_call.prior.called
    /\ \E j \in 0..(total_tags - 1), texts \in SaveTexts :
          /\ i' = j
          /\ questions' = Questions(texts)
          /\ save_call' = [prior |-> save_call.last,
                           last |-> [called |-> TRUE, tag_name |-> unique_tags[j + 1],
                                     questions |-> texts, before |-> OUTPUT_DIR]]
    /\ pc' = "save_open"
    /\ UNCHANGED <<inputs, PROGRESS_FILE, OUTPUT_DIR, site, loaded, counts, examples,
                   attempt, replies, reply_text, waits, runs, raised, history,
                   finished, killed, listed, merge, sample_call, progress_call, tagger>>

\* save_individual_csv has returned.
SaveReturns ==
    /\ pc = "up_open"
    /\ site = "success"
    /\ save_call.last.called
    /\ site' = "none"
    /\ pc' = "loop"
    /\ UNCHANGED <<inputs, PROGRESS_FILE, OUTPUT_DIR, loaded, i, counts, call, runs,
                   raised, history, finished, killed, listed, merge, alone, tagger>>

NextSave ==
    \/ StartRun
    \/ CallSave
    \/ SaveOpen
    \/ SaveClose
    \/ SaveReturns

SpecSave == InitSave /\ [][NextSave]_vars

(***************************************************************************)
(* The parsing of a response text alone, on texts of up to MaxRows lines   *)
(* that are numbered in the styles asked for, not numbered, or begin with  *)
(* digits or punctuation of their own.                                     *)
(***************************************************************************)
ParseLines ==
    {<<"1", ".", " ", "Q", "a">>, <<"1", "2", ")", "Q", "a">>, <<"2", "-", " ", "Q", "b">>,
     <<"Q", "a">>, <<" ", "Q", "b", "\t">>, <<"Q", "1", ".">>,
     <<"1", "8", " ", "Q", "a">>, <<"2", "Q", "b">>, <<"-", " ", "Q", "a">>,
     <<".", "Q", "b">>, <<"7">>, <<" ">>, <<>>}

ParseTexts == UNION {[1..n -> ParseLines] : n \in 1..MaxRows}

InitParse ==
    /\ examples_rows = <<>>
    /\ answers_rows = <<>>
    /\ PROGRESS_FILE = NoFile
    /\ finished = {}
    /\ OUTPUT_DIR = EmptyDict
    /\ pc = "idle"
    /\ site = "none"
    /\ unique_tags = <<>> /\ tag_questions = EmptyDict /\ tag_to_answer = EmptyDict
    /\ total_tags = 0 /\ last_processed = -1 /\ start_index = 0 /\ i = 0
    /\ success_count = 0 /\ failure_count = 0 /\ skipped_count = 0
    /\ examples = <<>> /\ attempt = 0 /\ questions = None
    /\ replies = <<>> /\ reply_text \in ParseTexts /\ waits = <<>>
    /\ client_ready = FALSE /\ ckpt_absent = FALSE
    /\ gen_calls = <<>> /\ outcome = <<>> /\ saved = {} /\ ckptd = {}
    /\ runs = 0
    /\ raised = FALSE
    /\ killed = FALSE
    /\ service = "short"
    /\ listed = {}
    /\ NoMerge
    /\ sample_call = NoSample
    /\ save_call = NoSave
    /\ progress_call = NoUpdate
    /\ NoTagging

\* The loop over questions_text.split('\n') builds the list questions.
ParseReply ==
    /\ pc = "idle"
    /\ questions' = Questions(ParseResponse(reply_text))
    /\ pc' = "parsed"
    /\ UNCHANGED <<inputs, PROGRESS_FILE, OUTPUT_DIR, site, loaded, i, counts, examples,
                   attempt, replies, reply_text, waits, runs, raised, history,
                   finished, killed, listed, merge, alone, tagger>>

NextParse == ParseReply

SpecParse == InitParse /\ [][NextParse]_vars

(***************************************************************************)
(* The checkpoint store alone: get_last_processed_index and                *)
(* update_progress, called in turn, with indices of one, two and three     *)
(* digits and -1.                                                          *)
(***************************************************************************)
CheckpointIndices == (-1..MaxTags) \cup {9, 10, 99, 100, 120}

InitCheckpoint ==
    /\ examples_rows = <<>>
    /\ answers_rows = <<>>
    /\ PROGRESS_FILE = NoFile
    /\ finished = {}
    /\ OUTPUT_DIR = EmptyDict
    /\ pc = "idle"
    /\ NoProcess
    /\ runs = 0
    /\ raised = FALSE
    /\ killed = FALSE
    /\ service = "short"
    /\ listed = {}
    /\ NoMerge
    /\ sample_call = NoSample
    /\ save_call = NoSave
    /\ progress_call = NoUpdate
    /\ NoTagging

\* last_processed = get_last_processed_index()
ReadCheckpoint ==
    /\ pc \in {"idle", "loop", "counted"}
    /\ last_processed' = get_last_processed_index(PROGRESS_FILE)
    /\ pc' = "read"
    /\ UNCHANGED <<inputs, PROGRESS_FILE, OUTPUT_DIR, site, unique_tags, tag_questions,
                   tag_to_answer, total_tags, start_index, i, counts, call, runs,
                   raised, history, finished, killed, listed, merge, alone, tagger>>

\* update_progress(index) is called: with -1 as at the reset, with an
\* ordinal as after an item.
CallUpdate ==
    /\ pc = "read"
    /\ ~progress_call.prior.called
    /\ \E index \in CheckpointIndices :
          /\ IF index = -1
             THEN site' = "reset" /\ i' = i
             ELSE site' = "success" /\ i' = index
          /\ progress_call' = [prior |-> progress_call.last,
                               last |-> [called |-> TRUE, index |-> index,
                                         before |-> PROGRESS_FILE]]
    /\ pc' = "up_open"
    /\ UNCHANGED <<inputs, PROGRESS_FILE, OUTPUT_DIR, loaded, counts, call, runs, raised,
                   history, finished, killed, listed, merge, sample_call, save_call, tagger>>

NextCheckpoint ==
    \/ ReadCheckpoint
    \/ CallUpdate
    \/ UpdateProgressOpen
    \/ UpdateProgressClose

SpecCheckpoint == InitCheckpoint /\ [][NextCheckpoint]_vars

(***************************************************************************)
(* Runs on input files whose tag fields carry a leading blank, in both     *)
(* files alike, or none.  No process is killed.                            *)
(***************************************************************************)
\* The rows with a blank before each tag field.
PaddedTags(rows) == [k \in 1..Len(rows) |-> [rows[k] EXCEPT !.tag = <<" ">> \o @]]

InitGaps ==
    /\ \E kinds \in UNION {[1..m -> Kinds] : m \in 1..MaxTags}, padded \in BOOLEAN :
          /\ examples_rows = IF padded THEN PaddedTags(MkExamples(kinds))
                                        ELSE MkExamples(kinds)
          /\ answers_rows = IF padded THEN PaddedTags(MkAnswers(kinds))
                                       ELSE MkAnswers(kinds)
          /\ service \in ServicesFor(kinds)
    /\ PROGRESS_FILE = NoFile
    /\ finished = {}
    /\ OUTPUT_DIR = EmptyDict
    /\ pc = "idle"
    /\ NoProcess
    /\ runs = 0
    /\ raised = FALSE
    /\ killed = FALSE
    /\ listed = {}
    /\ NoMerge
    /\ sample_call = NoSample
    /\ save_call = NoSave
    /\ progress_call = NoUpdate
    /\ NoTagging

SpecGaps == InitGaps /\ [][NextRun]_vars

(***************************************************************************)
(* The tagging stage (query_tag_processor.py): generate_tags on the rows   *)
(* load_csv kept, one group after the other, the tag-naming service        *)
(* answering each request with a text or a fault.                          *)
(***************************************************************************)
\* Characters for which str.isalnum() holds (those that occur here).
Alnum == DigitSet \cup {"a", "g", "t", "x"}

\* tag.lower().replace(" ", "_").replace("-", "_") on one character.
TagChar(c) ==
    CASE c = "X" -> "x"
      [] c \in {" ", "-"} -> "_"
      [] OTHER -> c

KeptChar(c) == c \in Alnum \cup {"_"}

\* The clean-up of the text the service returned.
CleanTag(content) ==
    LET mapped == [k \in 1..Len(Strip(content)) |-> TagChar(Strip(content)[k])]
        kept == SelectSeq(mapped, KeptChar)
    IN  RStrip(LStrip(kept, {"_"}), {"_"})

\* f"tag_{group_id}"
FallbackTag(group_id) == <<"t", "a", "g", "_">> \o group_id

\* _generate_tag_for_group on what the service did with the request.
generate_tag_for_group(group_id, o) ==
    IF o.fault THEN FallbackTag(group_id)
    ELSE IF CleanTag(o.text) = <<>> THEN FallbackTag(group_id)
    ELSE CleanTag(o.text)

\* Variant: one suffix is tried, whether or not it is taken.
next_free_tag_Once(original_tag, counter, used) ==
    original_tag \o <<"_">> \o NatToStr(counter)

\* The loop "while tag in used_tags", entered with the tag taken: the
\* first of original_tag_1, original_tag_2, ... that is not.
RECURSIVE next_free_tag(_, _, _)
next_free_tag(original_tag, counter, used) ==
    LET tag == original_tag \o <<"_">> \o NatToStr(counter)
    IN  IF tag \in used THEN next_free_tag(original_tag, counter + 1, used) ELSE tag

unique_tag(tag, used) == IF tag \in used THEN next_free_tag(tag, 1, used) ELSE tag

\* list(self.id_to_queries.keys()): the group ids in order of appearance.
RECURSIVE unique_ids(_)
unique_ids(rows) ==
    IF rows = <<>> THEN <<>>
    ELSE LET before == unique_ids(SubSeq(rows, 1, Len(rows) - 1))
             id == rows[Len(rows)].id
         IN  IF id \in Range(before) THEN before ELSE Append(before, id)

\* self.id_to_answer: the answer of the first row of each group.
id_to_answer(rows) ==
    [id \in Range(unique_ids(rows)) |->
        rows[CHOOSE k \in 1..Len(rows) :
                 rows[k].id = id /\ \A n \in 1..(k - 1) : rows[n].id # id].answer]

\* The texts the tag-naming service returns.
TagTextPool == {<<"x">>, <<"X", " ">>, <<"x", "-", "1">>, <<"x", " ", "1">>, <<"!">>,
                <<"t", "a", "g", "_", "2">>, <<"_", "a">>}

TagServiceOutcomes ==
    {[fault |-> TRUE, text |-> <<>>]} \cup {[fault |-> FALSE, text |-> r] : r \in TagTextPool}

\* The rows of n groups; the first group has two rows when there are
\* several groups.
TagRows(n) ==
    [k \in 1..n |-> [query |-> <<"Q", Digits[k + 1]>>, answer |-> <<"A", Digits[k + 1]>>,
                      id |-> <<Digits[k + 1]>>]]
    \o (IF n > 1 THEN <<[query |-> <<"Q", "0">>, answer |-> <<"A", "0">>, id |-> <<"1">>]>>
        ELSE <<>>)

\* The files a processor is loaded from first, and those it is loaded from
\* when load_csv is called on it once more: the third group alone, and the
\* first and third groups.
FirstFiles == {TagRows(n) : n \in 0..(MaxTags + 1)}

SecondFiles == {<<TagRows(3)[3]>>, <<TagRows(3)[1], TagRows(3)[3]>>}

InitTagging ==
    /\ examples_rows = <<>>
    /\ answers_rows = <<>>
    /\ PROGRESS_FILE = NoFile
    /\ finished = {}
    /\ OUTPUT_DIR = EmptyDict
    /\ pc = "idle"
    /\ NoProcess
    /\ runs = 0
    /\ raised = FALSE
    /\ killed = FALSE
    /\ service = "short"
    /\ listed = {}
    /\ NoMerge
    /\ sample_call = NoSample
    /\ save_call = NoSave
    /\ progress_call = NoUpdate
    /\ data \in FirstFiles
    /\ id_to_tag = EmptyDict /\ id_to_tag_keys = <<>> /\ used_tags = {}
    /\ query_tags = EmptyDict /\ tag_answer = EmptyDict /\ labels = <<>>
    /\ tag_exception = NoException /\ tpc = "idle"

RuntimeError == [type |-> "RuntimeError", key |-> <<>>]

KeyError(key) == [type |-> "KeyError", key |-> key]

\* The first element of the list that is not in the set; 0 when all are.
FirstOutside(list, set) ==
    IF \A k \in 1..Len(list) : list[k] \in set THEN 0
    ELSE CHOOSE k \in 1..Len(list) :
             list[k] \notin set /\ \A n \in 1..(k - 1) : list[n] \in set

\* load_csv is called once more on the processor: data, id_to_queries and
\* id_to_answer are made anew from the file, id_to_tag, query_tags and
\* tag_answer are kept.
LoadCsv ==
    /\ tpc \in {"tagged", "split", "raised"}
    /\ data \in FirstFiles
    /\ data' \in SecondFiles
    /\ tag_exception' = NoException
    /\ tpc' = "idle"
    /\ UNCHANGED <<inputs, PROGRESS_FILE, OUTPUT_DIR, pc, site, loaded, i, counts, call,
                   runs, raised, history, finished, killed, listed, alone, merge>>
    /\ UNCHANGED <<id_to_tag, id_to_tag_keys, used_tags, query_tags, tag_answer, labels>>

\* generate_tags is called: without data it raises RuntimeError.
StartTagging ==
    /\ tpc = "idle"
    /\ IF data = <<>>
       THEN tpc' = "raised" /\ tag_exception' = RuntimeError
       ELSE tpc' = "tagging" /\ tag_exception' = NoException
    /\ used_tags' = {}
    /\ labels' = <<>>
    /\ UNCHANGED <<inputs, PROGRESS_FILE, OUTPUT_DIR, pc, site, loaded, i, counts, call,
                   runs, raised, history, finished, killed, listed, alone, merge>>
    /\ UNCHANGED <<data, id_to_tag, id_to_tag_keys, query_tags, tag_answer>>

\* The mappings generate_tags builds after its loop: query -> tag from the
\* rows, tag -> answer from the given keys of id_to_tag (a later key with
\* the same tag replaces the answer).
QueryTags(rows, tags) ==
    [q \in {rows[k].query : k \in 1..Len(rows)} |->
        tags[rows[CHOOSE k \in 1..Len(rows) :
                      rows[k].query = q /\ \A n \in (k + 1)..Len(rows) : rows[n].query # q].id]]

TagAnswer(keys, tags, answers) ==
    [t \in {tags[keys[k]] : k \in 1..Len(keys)} |->
        answers[keys[CHOOSE k \in 1..Len(keys) :
            tags[keys[k]] = t /\ \A n \in (k + 1)..Len(keys) : tags[keys[n]] # t]]]

\* One iteration of the loop of generate_tags: the request for the next
\* group, the tag made unique, the group mapped to it; after the last
\* group the query -> tag and tag -> answer mappings are built.  A key of
\* id_to_tag that is not a group of the data (one kept from an earlier
\* load_csv) ends the building of tag -> answer with a KeyError.
TagGroup ==
    /\ tpc = "tagging"
    /\ Len(labels) < Len(unique_ids(data))
    /\ \E o \in TagServiceOutcomes :
          LET group_id == unique_ids(data)[Len(labels) + 1]
              original_tag == generate_tag_for_group(group_id, o)
              tag == unique_tag(original_tag, used_tags)
              tags == [id \in DOMAIN id_to_tag \cup {group_id} |->
                          IF id = group_id THEN tag ELSE id_to_tag[id]]
              keys == IF group_id \in DOMAIN id_to_tag THEN id_to_tag_keys
                      ELSE Append(id_to_tag_keys, group_id)
              stale == FirstOutside(keys, Range(unique_ids(data)))
          IN  /\ labels' = Append(labels, original_tag)
              /\ used_tags' = used_tags \cup {tag}
              /\ id_to_tag' = tags
              /\ id_to_tag_keys' = keys
              /\ IF Len(labels) + 1 < Len(unique_ids(data))
                 THEN UNCHANGED <<query_tags, tag_answer, tag_exception, tpc>>
                 ELSE /\ query_tags' = QueryTags(data, tags)
                      /\ IF stale = 0
                         THEN /\ tag_answer' = TagAnswer(keys, tags, id_to_answer(data))
                              /\ tag_exception' = NoException
                              /\ tpc' = "tagged"
                         ELSE /\ tag_answer' = TagAnswer(SubSeq(keys, 1, stale - 1), tags,
                                                         id_to_answer(data))
                              /\ tag_exception' = KeyError(keys[stale])
                              /\ tpc' = "raised"
    /\ UNCHANGED <<inputs, PROGRESS_FILE, OUTPUT_DIR, pc, site, loaded, i, counts, call,
                   runs, raised, history, finished, killed, listed, alone, merge>>
    /\ UNCHANGED data

\* The data rows of queries_tags.csv: a row for each row of the data.
queries_tags_rows(rows, tags) ==
    [k \in 1..Len(rows) |-> [query |-> rows[k].query, tag |-> tags[rows[k].id]]]

\* tag_answer.items(): the tags in the order they were put in, which is
\* that of the keys of id_to_tag they were built from.
tag_answer_items(keys, tags, answers) ==
    LET IsFirst(k) == /\ tags[keys[k]] \in DOMAIN answers
                      /\ \A n \in 1..(k - 1) : tags[keys[n]] # tags[keys[k]]
        firsts == SelectSeq([k \in 1..Len(keys) |-> k], IsFirst)
    IN  [n \in 1..Len(firsts) |->
            [tag |-> tags[keys[firsts[n]]], answer |-> answers[tags[keys[firsts[n]]]]]]

\* split_to_csv_files is called: without tags it raises RuntimeError; else
\* it writes queries_tags.csv, row by row, and then tags_answers.csv, the
\* files run_full_pipeline gives the generation stage as examples_file and
\* answers_file.  A row of a group without a tag (the data was loaded
\* after the tags were made) ends the writing with a KeyError.
SplitToCsvFiles ==
    /\ tpc \in {"idle", "tagged"}
    /\ IF id_to_tag = EmptyDict
       THEN /\ tag_exception' = RuntimeError
            /\ tpc' = "raised"
            /\ UNCHANGED <<examples_rows, answers_rows>>
       ELSE LET untagged == FirstOutside([k \in 1..Len(data) |-> data[k].id],
                                         DOMAIN id_to_tag)
            IN  IF untagged = 0
                THEN /\ examples_rows' = queries_tags_rows(data, id_to_tag)
                     /\ answers_rows' = tag_answer_items(id_to_tag_keys, id_to_tag, tag_answer)
                     /\ tag_exception' = NoException
                     /\ tpc' = "split"
                ELSE /\ examples_rows' =
                            queries_tags_rows(SubSeq(data, 1, untagged - 1), id_to_tag)
                     /\ tag_exception' = KeyError(data[untagged].id)
                     /\ tpc' = "raised"
                     /\ UNCHANGED answers_rows
    /\ UNCHANGED <<service, PROGRESS_FILE, OUTPUT_DIR, pc, site, loaded, i, counts, call,
                   runs, raised, history, finished, killed, listed, alone, merge>>
    /\ UNCHANGED <<data, id_to_tag, id_to_tag_keys, used_tags, query_tags, tag_answer, labels>>

\* load_example_questions reads row['tag'] and, unless the tag is
\* 'fraction', row['question'] of every row: the rows have the column.
HasQuestions(rows) ==
    \A k \in 1..Len(rows) :
        rows[k].tag # Str_fraction => "question" \in DOMAIN rows[k]

\* process() with run_paraphrase: run_full_pipeline calls
\* run_paraphrase_generation on the files split_to_csv_files wrote.  Their
\* first column is 'query', so load_example_questions raises
\* KeyError('question') before a tag is listed, a request is made or
\* run_merge is called: run_paraphrase_generation has been invoked once
\* more, and the exception has ended it with nothing loaded or written.
RunFullPipeline ==
    /\ tpc = "split"
    /\ ~HasQuestions(examples_rows)
    /\ runs' = runs + 1
    /\ tag_exception' = KeyError(Str_question)
    /\ tpc' = "raised"
    /\ UNCHANGED <<inputs, PROGRESS_FILE, OUTPUT_DIR, pc, site, loaded, i, counts, call,
                   raised, history, finished, killed, listed, alone, merge>>
    /\ UNCHANGED <<data, id_to_tag, id_to_tag_keys, used_tags, query_tags, tag_answer, labels>>

NextTagging ==
    \/ StartTagging
    \/ TagGroup
    \/ SplitToCsvFiles
    \/ RunFullPipeline
    \/ LoadCsv

SpecTagging == InitTagging /\ [][NextTagging]_vars

(***************************************************************************)
(* Properties.                                                             *)
(***************************************************************************)
\* A run is under way: a process that has its client.  (A process whose
\* client cannot be made returns at once; it has no work list, no resume
\* index and no item.)
Running == pc # "idle" /\ client_ready

Ordinals == 0..(total_tags - 1)

\* The checkpoint file holds exactly the text of n.
CheckpointIs(n) == PROGRESS_FILE = File(IntToStr(n))

\* C1 (resumability): when the checkpoint read at the start of a run is an
\* ordinal k with 0 <= k < M-1, the run never calls the Generation Client
\* for an ordinal <= k, touches no item <= k, and starts at k+1.
C1_Resumability ==
    (Running /\ last_processed >= 0 /\ last_processed < total_tags - 1) =>
        /\ \A n \in 1..Len(gen_calls) : gen_calls[n] > last_processed
        /\ start_index = last_processed + 1
        /\ i >= last_processed + 1
        /\ \A j \in 0..last_processed : outcome[j] = "PENDING"

\* A resumed run has called the Generation Client for ordinal k+1.
C1_Witness ==
    /\ pc = "gen"
    /\ last_processed >= 0 /\ last_processed < total_tags - 1
    /\ gen_calls = <<last_processed + 1>>

\* The value the checkpoint store held before the update under way, and
\* the value the update is to give it.
OldCheckpoint ==
    IF site = "reset" THEN last_processed
    ELSE IF i > start_index THEN i - 1
    ELSE IF last_processed + 1 >= total_tags THEN -1
    ELSE last_processed

NewCheckpoint == IF site = "reset" THEN -1 ELSE i

\* C2 as stated: at every point of a run, the checkpoint of ordinal j has
\* been written by this run if and only if item j has reached its outcome
\* (with its artifact written, when a success).
C2_Original ==
    Running =>
        \A j \in Ordinals :
            j \in ckptd <=> (outcome[j] \in Terminal /\ (outcome[j] = "SUCCESS" => j \in saved))

\* C2 (amended): a checkpoint written by this run is that of an item that
\* has reached its outcome, a success having its complete artifact on disk
\* before; conversely every item that has reached its outcome is
\* checkpointed by the time the loop takes the next item or ends.  In
\* between, while item i has its outcome or its artifact and
\* update_progress(i) has not completed, the checkpoint file does not hold
\* i: it holds the earlier value until update_progress opens it, and from
\* that open until the write it is empty, which a reader takes for -1.  At
\* all other points the file holds an ordinal this run has checkpointed,
\* once there is one.
C2_CheckpointOnlyIfFinished ==
    Running =>
        /\ \A j \in ckptd :
              /\ j \in Ordinals
              /\ outcome[j] \in Terminal
              /\ outcome[j] = "SUCCESS" =>
                    /\ j \in saved
                    /\ unique_tags[j + 1] \in DOMAIN OUTPUT_DIR
                    /\ Len(OUTPUT_DIR[unique_tags[j + 1]]) = TARGET_COUNT + 1
        /\ pc \in {"loop", "done"} =>
              \A j \in Ordinals : outcome[j] \in Terminal => j \in ckptd
        /\ \A j \in Ordinals :
              ((outcome[j] \in Terminal \/ j \in saved) /\ j \notin ckptd) =>
                  /\ j = i /\ pc \in {"up_open", "up_write"} /\ site # "reset"
                  /\ get_last_processed_index(PROGRESS_FILE) # j
                  /\ pc = "up_open" => get_last_processed_index(PROGRESS_FILE) = OldCheckpoint
                  /\ pc = "up_write" =>
                        /\ PROGRESS_FILE = update_progress_open
                        /\ get_last_processed_index(PROGRESS_FILE) = -1
        /\ (ckptd # {} /\ pc # "up_write") =>
              get_last_processed_index(PROGRESS_FILE) \in ckptd

\* An artifact is on disk and the item's checkpoint is not yet written:
\* update_progress has opened the file, which held the checkpoint of an
\* earlier, failed item of the run and is now empty.
C2_Witness ==
    /\ pc = "up_write" /\ site = "success"
    /\ i \in saved /\ i \notin ckptd
    /\ \E j \in ckptd : outcome[j] = "FAILED"
    /\ PROGRESS_FILE = update_progress_open

\* C3: whenever no process runs (so also after a kill), every artifact
\* file holds the header row and exactly TARGET_COUNT data rows.
C3_ArtifactAtomicity ==
    pc = "idle" =>
        \A t \in DOMAIN OUTPUT_DIR :
            /\ Len(OUTPUT_DIR[t]) = TARGET_COUNT + 1
            /\ OUTPUT_DIR[t][1] = HeaderRow

\* C4 as stated: a re-invocation that finds checkpoint k, 0 <= k <= M-1,
\* calls the Generation Client for no ordinal <= k and redoes none.
C4_Original ==
    (Running /\ runs >= 2 /\ last_processed >= 0 /\ last_processed <= total_tags - 1) =>
        /\ \A n \in 1..Len(gen_calls) : gen_calls[n] > last_processed
        /\ \A j \in 0..last_processed : outcome[j] = "PENDING" /\ j \notin ckptd

\* C4 (amended): a re-invocation that finds checkpoint k, 0 <= k < M-1,
\* resumes: no generation, artifact write or checkpoint write for an
\* ordinal <= k.  One that finds k = M-1 restarts at ordinal 0.
C4_ResumesUnlessComplete ==
    (Running /\ runs >= 2 /\ last_processed >= 0) =>
        /\ last_processed < total_tags - 1 =>
              /\ \A n \in 1..Len(gen_calls) : gen_calls[n] > last_processed
              /\ \A j \in 0..last_processed :
                    outcome[j] = "PENDING" /\ j \notin ckptd /\ j \notin saved
        /\ last_processed = total_tags - 1 => start_index = 0

\* A re-invocation that resumed after ordinal 0 has finished its run.
C4_Witness ==
    /\ pc = "done" /\ runs >= 2
    /\ last_processed >= 0 /\ last_processed < total_tags - 1
    /\ ckptd = (last_processed + 1)..(total_tags - 1)

\* C5: a run that follows a kill, some ordinal not having been fully
\* processed by then, starts at the lowest such ordinal (stated where the
\* run enters its loop, before it has touched an item).
C5_CrashSafety ==
    (/\ pc = "loop" /\ killed
     /\ i = start_index /\ ckptd = {} /\ \A j \in Ordinals : outcome[j] = "PENDING"
     /\ \E j \in Ordinals : j \notin finished) =>
        /\ start_index \notin finished
        /\ \A j \in 0..(start_index - 1) : j \in finished

\* C6 (stale-checkpoint reset): a run that reads a checkpoint k with
\* k + 1 >= M starts at ordinal 0, touches no item before the checkpoint
\* file holds -1, and never indexes past the end of the list.
C6_StaleReset ==
    (Running /\ last_processed + 1 >= total_tags) =>
        /\ start_index = 0
        /\ site = "reset" =>
              /\ \A j \in Ordinals : outcome[j] = "PENDING"
              /\ gen_calls = <<>> /\ ckptd = {} /\ saved = {} /\ i = 0
        /\ (site # "reset" /\ ckptd = {} /\ pc # "up_write") => CheckpointIs(-1)
        /\ pc \notin {"loop", "done"} /\ site # "reset" => i < total_tags

\* After the reset of a stale ordinal, generation runs for ordinal 0.
C6_Witness ==
    /\ pc = "gen" /\ i = 0
    /\ last_processed >= 0 /\ last_processed + 1 >= total_tags
    /\ CheckpointIs(-1)

\* C7 (checkpoint monotonicity): in a run that found no checkpoint file,
\* whenever the loop is at ordinal i >= 1 (or over), ordinals 0..i-1 have
\* all reached an outcome and been checkpointed, and the file holds i-1.
C7_CheckpointFollowsLoop ==
    (pc \in {"loop", "done"} /\ ckpt_absent /\ i >= 1) =>
        /\ get_last_processed_index(PROGRESS_FILE) = i - 1
        /\ ckptd = 0..(i - 1)
        /\ \A j \in 0..(i - 1) : outcome[j] \in Terminal

\* Two items with different outcomes are done; the checkpoint is 1.
C7_Witness ==
    /\ pc = "loop" /\ ckpt_absent /\ i = 2
    /\ outcome[0] # outcome[1]
    /\ CheckpointIs(1)

\* C8 (retry bound): a generate call never sends more than MAX_RETRIES
\* requests; it returns None only after exactly MAX_RETRIES; with every
\* reply short it sends exactly MAX_RETRIES and returns None.
C8_RetryBound ==
    /\ Len(replies) <= MAX_RETRIES
    /\ pc = "gen" => Len(replies) = attempt /\ attempt < MAX_RETRIES
    /\ (pc = "ret" /\ questions = None) => Len(replies) = MAX_RETRIES
    /\ (pc = "ret" /\ \A n \in 1..Len(replies) : replies[n] = "short") =>
          Len(replies) = MAX_RETRIES /\ questions = None

\* The call returned after three short replies.
C8_Witness == pc = "ret" /\ replies = <<"short", "short", "short">>

\* C9 (result shape): a list returned by generate has TARGET_COUNT entries:
\* the first TARGET_COUNT parsed entries, in order, of the reply it
\* returned on, which is the first reply with at least that many.
C9_ResultShape ==
    (pc = "ret" /\ ~questions.none) =>
        LET parsed == ParseOf(reply_text)
        IN  /\ Len(questions.list) = TARGET_COUNT
            /\ replies[Len(replies)] = "full"
            /\ \A n \in 1..(Len(replies) - 1) : replies[n] # "full"
            /\ Len(parsed) >= TARGET_COUNT
            /\ questions.list = SubSeq(parsed, 1, TARGET_COUNT)

\* A list was returned on a retry whose reply had an entry in excess.
C9_Witness ==
    /\ pc = "ret" /\ ~questions.none
    /\ Len(replies) = 2
    /\ Len(ParseOf(reply_text)) = TARGET_COUNT + 1

\* C10 (failure is a value): no exception leaves generate; what it
\* returns is None or a list of TARGET_COUNT texts.
C10_FailureIsValue ==
    /\ ~raised /\ pc # "crashed"
    /\ pc = "ret" => (questions = None \/ (~questions.none /\ Len(questions.list) = TARGET_COUNT))

\* The call returned None after a fault, an empty and a short reply.
C10_Witness ==
    /\ pc = "ret" /\ questions = None
    /\ {"fault", "empty", "short"} \subseteq Range(replies)

\* The file of the tag at ordinal j is absent from OUTPUT_DIR.
NoArtifact(j) == unique_tags[j + 1] \notin DOMAIN OUTPUT_DIR

\* The ordinals of the run whose item has the given outcome.
WithOutcome(o) == {j \in Ordinals : outcome[j] = o}

\* C11 (failure isolation): an item whose generation returned no list is
\* FAILED and counted as such; no artifact write starts or completes for
\* it (in a first run its file does not exist); the run does not abort,
\* and when the loop goes on the item is checkpointed, the loop is past it
\* and, directly after it, the checkpoint file holds its ordinal.
C11_FailureIsolation ==
    Running =>
        /\ pc # "crashed"
        /\ \A j \in Ordinals : outcome[j] = "FAILED" =>
              /\ j \notin saved
              /\ \E n \in 1..Len(gen_calls) : gen_calls[n] = j
              /\ runs = 1 => NoArtifact(j)
              /\ pc \in {"loop", "done"} => (j \in ckptd /\ i > j)
              /\ (pc = "loop" /\ i = j + 1) => CheckpointIs(j)
        /\ site = "failure" => (outcome[i] = "FAILED" /\ questions = None)
        /\ pc \in {"loop", "done"} => failure_count = Cardinality(WithOutcome("FAILED"))

\* After ordinal 0 failed in a first run, generation runs for ordinal 1.
C11_Witness ==
    /\ pc = "gen" /\ i = 1 /\ runs = 1
    /\ outcome[0] = "FAILED" /\ NoArtifact(0)
    /\ CheckpointIs(0)

\* The item at ordinal j has a data gap: its tag has no answer, or the
\* draw of examples for it is empty.
DataGap(j) ==
    \/ unique_tags[j + 1] \notin DOMAIN tag_to_answer
    \/ <<>> \in get_random_examples(tag_questions, unique_tags[j + 1], NUM_EXAMPLES)

\* C12 (data gaps are skips): an item the run has taken up is SKIPPED
\* exactly when it has a data gap; for a SKIPPED item the Generation Client
\* is never called and no artifact write starts (in a first run its file
\* does not exist); when the loop goes on the item is checkpointed, the
\* loop is past it and, directly after it, the file holds its ordinal.
C12_GapsAreSkips ==
    Running =>
        /\ pc # "crashed"
        /\ \A j \in Ordinals :
              /\ outcome[j] # "PENDING" => (outcome[j] = "SKIPPED" <=> DataGap(j))
              /\ outcome[j] = "SKIPPED" =>
                    /\ \A n \in 1..Len(gen_calls) : gen_calls[n] # j
                    /\ j \notin saved
                    /\ runs = 1 => NoArtifact(j)
                    /\ pc \in {"loop", "done"} => (j \in ckptd /\ i > j)
                    /\ (pc = "loop" /\ i = j + 1) => CheckpointIs(j)
        /\ site = "skip" => outcome[i] = "SKIPPED"
        /\ pc \in {"loop", "done"} => skipped_count = Cardinality(WithOutcome("SKIPPED"))

\* A first run skipped one item for its missing answer and the next for
\* its empty draw; both are checkpointed, neither was generated for.
C12_Witness ==
    /\ pc = "done" /\ runs = 1 /\ total_tags = 2
    /\ outcome[0] = "SKIPPED" /\ outcome[1] = "SKIPPED"
    /\ unique_tags[1] \notin DOMAIN tag_to_answer
    /\ unique_tags[2] \in DOMAIN tag_to_answer
    /\ gen_calls = <<>> /\ OUTPUT_DIR = EmptyDict
    /\ CheckpointIs(1)

\* C13 (run summary accounting): whenever the loop is between two items
\* or over, each ordinal from start_index up to i has exactly one of the
\* three outcomes and each counter is the number of items with its
\* outcome, so the counters sum to i - start_index; the completed artifact
\* writes are as many as the successes.  When the run returns, the counts
\* sum to M - start_index and the checkpoint read back is M - 1; a first
\* run leaves as many artifact files as it counted successes.
C13_RunSummary ==
    (Running /\ pc \in {"loop", "done"} /\ site = "none") =>
        /\ \A j \in Ordinals : IF start_index <= j /\ j < i
                                THEN outcome[j] \in Terminal
                                ELSE outcome[j] = "PENDING"
        /\ success_count = Cardinality(WithOutcome("SUCCESS"))
        /\ failure_count = Cardinality(WithOutcome("FAILED"))
        /\ skipped_count = Cardinality(WithOutcome("SKIPPED"))
        /\ success_count + failure_count + skipped_count = i - start_index
        /\ Cardinality(saved) = success_count
        /\ pc = "done" =>
              /\ i = total_tags
              /\ success_count + failure_count + skipped_count = total_tags - start_index
              /\ get_last_processed_index(PROGRESS_FILE) = total_tags - 1
              /\ runs = 1 => Cardinality(DOMAIN OUTPUT_DIR) = success_count

\* A first run over two items returns 1 success, 1 failed, 0 skipped, with
\* checkpoint 1 and one artifact file, that of the first tag.
C13_Witness ==
    /\ pc = "done" /\ runs = 1 /\ total_tags = 2 /\ start_index = 0
    /\ <<success_count, failure_count, skipped_count>> = <<1, 1, 0>>
    /\ outcome[0] = "SUCCESS" /\ outcome[1] = "FAILED"
    /\ CheckpointIs(1)
    /\ DOMAIN OUTPUT_DIR = {unique_tags[1]}

\* C14 (deterministic work-list order): all runs on the same examples
\* input enumerate the same work list.
C14_DeterministicOrder == Cardinality(listed) <= 1

\* The data rows of the artifact file of tag t.
DataRows(t) == DictReader(OUTPUT_DIR[t])

\* The data rows of the merged output file.
MergedRows == DictReader(OUTPUT_FILE.content)

\* merge_csv_files has returned.
Merged == mpc \in {"validate", "validated"} \/ (mpc = "done" /\ returned # "None")

\* C15 (merge completeness): once merge_csv_files has returned, every
\* merged row carries the tag of an artifact, each tag is on as many
\* merged rows as its artifact has data rows, and the count returned is the
\* number of merged rows; so with K artifacts of n data rows each, there
\* are K x n merged rows, n for each tag, and K x n is returned.
C15_MergeCompleteness ==
    Merged =>
        /\ merged_count = Len(MergedRows)
        /\ \A k \in 1..Len(MergedRows) : MergedRows[k].tag \in DOMAIN OUTPUT_DIR
        /\ \A t \in DOMAIN OUTPUT_DIR : TagCount(MergedRows, t) = Len(DataRows(t))
        /\ \A n \in {TARGET_COUNT, ROWS_PER_TAG} :
              (\A t \in DOMAIN OUTPUT_DIR : Len(DataRows(t)) = n) =>
                  /\ Len(MergedRows) = Cardinality(DOMAIN OUTPUT_DIR) * n
                  /\ merged_count = Cardinality(DOMAIN OUTPUT_DIR) * n

\* Two artifacts of TARGET_COUNT rows were merged and the merge returned.
C15_Witness ==
    /\ mpc = "done" /\ returned = "output_file"
    /\ Cardinality(DOMAIN OUTPUT_DIR) = 2
    /\ \A t \in DOMAIN OUTPUT_DIR : Len(DataRows(t)) = TARGET_COUNT
    /\ merged_count = 2 * TARGET_COUNT

\* C16: when all artifacts have TARGET_COUNT data rows but one, which has
\* TARGET_COUNT - 1, validation reports a wrong count for that tag only.
C16_ValidationPrecise ==
    report.done =>
        \A t \in DOMAIN OUTPUT_DIR :
            (/\ Len(DataRows(t)) = TARGET_COUNT - 1
             /\ \A u \in DOMAIN OUTPUT_DIR \ {t} : Len(DataRows(u)) = TARGET_COUNT) =>
                report.tags_with_wrong_count = {t}

\* C17 (validation is observational): whatever the merged content,
\* validation ends with its report, leaves the merged file as
\* merge_csv_files wrote it, and run_merge then returns the output file.
C17_ValidationObservational ==
    /\ (mpc = "validated" \/ (mpc = "done" /\ csv_files # <<>>)) =>
          /\ report.done
          /\ report = validate_merged_file(OUTPUT_FILE, merged_count)
          /\ OUTPUT_FILE = File(merged_content(merged_data))
    /\ (mpc = "done" /\ csv_files # <<>>) => returned = "output_file"

\* run_merge returned the output file although validation found tags with
\* a wrong count and rows with an empty field.
C17_Witness ==
    /\ mpc = "done" /\ returned = "output_file"
    /\ report.tags_with_wrong_count # {} /\ report.invalid_count > 0
    /\ Len(OUTPUT_FILE.content) = merged_count + 1

\* C18 (atomic checkpoint overwrite): at every point of an update_progress
\* call, a reader of the checkpoint file gets the old or the new value.
C18_AtomicOverwrite ==
    pc \in {"up_open", "up_write"} =>
        get_last_processed_index(PROGRESS_FILE) \in {OldCheckpoint, NewCheckpoint}

\* The Per-Item Writer is at work on the item under way.
Writing == pc \in {"save_open", "save_write"}

\* C19 (success step): the writer is at work on ordinal i only after the
\* Generation Client returned exactly TARGET_COUNT texts for i, and after
\* a return of anything else the item is FAILED without a write; an
\* artifact write has completed for exactly the SUCCESS items; what is
\* written is the returned texts under the item's tag; the checkpoint is
\* set to i after the write, and the success is counted by the time the
\* loop goes on.
C19_SuccessStep ==
    Running =>
        /\ (Writing \/ site = "success") =>
              /\ ~questions.none /\ Len(questions.list) = TARGET_COUNT
              /\ gen_calls # <<>> /\ gen_calls[Len(gen_calls)] = i
        /\ site = "failure" => (questions = None /\ i \notin saved /\ outcome[i] = "FAILED")
        /\ \A j \in Ordinals : j \in saved <=> outcome[j] = "SUCCESS"
        /\ site = "success" =>
              /\ i \in saved
              /\ OUTPUT_DIR[tag_name] = ArtifactRows(tag_name, questions.list)
        /\ (site = "success" /\ pc = "up_open") => i \notin ckptd
        /\ pc = "counted" => (CheckpointIs(i) /\ i \in ckptd)
        /\ (pc \in {"loop", "done"} /\ site = "none") =>
              /\ saved \subseteq ckptd
              /\ success_count = Cardinality(saved)

\* After a failed first item, the second got its TARGET_COUNT texts on a
\* retry; its artifact is written and its checkpoint set.
C19_Witness ==
    /\ pc = "counted" /\ i = 1
    /\ outcome[0] = "FAILED" /\ outcome[1] = "SUCCESS"
    /\ saved = {1}
    /\ Len(OUTPUT_DIR[tag_name]) = TARGET_COUNT + 1
    /\ CheckpointIs(1)

\* C20 (sequential processing): the ordinals generation was called for
\* are strictly increasing; at most one item is RUNNING and it is the item
\* under way; the items before it (from start_index on) have their outcome
\* and their checkpoint, the items after it are untouched; requests, the
\* artifact write and the checkpoint write under way are those of item i.
C20_Sequential ==
    Running =>
        /\ \A m, n \in 1..Len(gen_calls) : m < n => gen_calls[m] < gen_calls[n]
        /\ Cardinality(WithOutcome("RUNNING")) <= 1
        /\ \A j \in Ordinals :
              /\ outcome[j] = "RUNNING" => (j = i /\ pc \in {"gen", "ret", "save_open", "save_write"})
              /\ j > i => (outcome[j] = "PENDING" /\ j \notin saved /\ j \notin ckptd)
              /\ (start_index <= j /\ j < i) => (outcome[j] \in Terminal /\ j \in ckptd)
              /\ j < start_index => outcome[j] = "PENDING"
        /\ \A n \in 1..Len(gen_calls) : gen_calls[n] <= i
        /\ pc \in {"gen", "ret", "save_open", "save_write"} =>
              (gen_calls[Len(gen_calls)] = i /\ outcome[i] = "RUNNING")
        /\ (Writing /\ runs = 1) =>
              DOMAIN OUTPUT_DIR \subseteq {unique_tags[j + 1] : j \in 0..i}
        /\ start_index <= i

\* Generation runs for the second item after the first was generated for,
\* written and checkpointed.
C20_Witness ==
    /\ pc = "gen" /\ attempt = 1
    /\ gen_calls = <<0, 1>>
    /\ outcome[0] = "SUCCESS" /\ outcome[1] = "RUNNING"
    /\ saved = {0} /\ ckptd = {0}

\* The run has returned: every ordinal from start_index on has its
\* outcome and the checkpoint read back is total_tags - 1.
Terminated ==
    /\ pc = "done"
    /\ \A j \in start_index..(total_tags - 1) : outcome[j] \in Terminal
    /\ get_last_processed_index(PROGRESS_FILE) = total_tags - 1

\* C21 (run termination): a run over at least one item that is not
\* killed, whatever the service replies, eventually returns with every
\* ordinal from the resume index on in a terminal outcome and the
\* checkpoint at M - 1.
C21_RunTerminates == (Running /\ total_tags >= 1) ~> Terminated

\* A run over two items has returned; one item failed, one succeeded.
C21_Witness ==
    /\ Terminated /\ total_tags = 2
    /\ \E j \in Ordinals : outcome[j] = "FAILED"
    /\ \E j \in Ordinals : outcome[j] = "SUCCESS"

\* The kind of failure of a reply: a fault, or a shortfall (an empty or a
\* short response).
FailureKind(r) == IF r = "fault" THEN "fault" ELSE "shortfall"

\* C22 as stated: the wait after a failed attempt is larger than the wait
\* after the attempt before it, when both failed in the same way.
C22_Original ==
    \A a \in 1..(Len(waits) - 1) :
        FailureKind(replies[a]) = FailureKind(replies[a + 1]) => waits[a + 1] > waits[a]

\* C22 (amended): the wait before a retry does not depend on the attempt
\* number: it is SHORT_WAIT after an empty or short response and
\* FAULT_WAIT after a fault, so the waits after two failures of the same
\* kind are equal.
C22_ConstantBackoff ==
    /\ Len(waits) <= Len(replies)
    /\ \A a \in 1..Len(waits) :
          waits[a] = IF replies[a] = "fault" THEN FAULT_WAIT ELSE SHORT_WAIT
    /\ \A a \in 1..(Len(waits) - 1) :
          FailureKind(replies[a]) = FailureKind(replies[a + 1]) => waits[a + 1] = waits[a]

\* Two faults in a row were each followed by the same wait.
C22_Witness ==
    /\ pc = "gen" /\ attempt = 2
    /\ replies = <<"fault", "fault">>
    /\ waits = <<FAULT_WAIT, FAULT_WAIT>>

\* C23 (backoff per failure kind): every failed attempt that another
\* attempt follows is followed by a non-zero wait; the wait after a fault
\* is larger than the wait after an empty or short response; there is one
\* wait per attempt made but the last, hence none after the final attempt.
C23_BackoffPerKind ==
    /\ \A a \in 1..Len(waits) : waits[a] > 0
    /\ \A a, b \in 1..Len(waits) :
          (replies[a] = "fault" /\ replies[b] # "fault") => waits[a] > waits[b]
    /\ pc = "gen" => Len(waits) = Len(replies)
    /\ pc = "ret" => Len(waits) = Len(replies) - 1

\* The call returned None after a short response, a fault and a last
\* attempt: two waits, the second the larger.
C23_Witness ==
    /\ pc = "ret" /\ questions = None
    /\ Len(replies) = MAX_RETRIES
    /\ replies[1] = "short" /\ replies[2] = "fault"
    /\ waits = <<SHORT_WAIT, FAULT_WAIT>>

\* The number of merged rows that come from the files before position p.
RECURSIVE Offset(_)
Offset(p) ==
    IF p <= 1 THEN 0
    ELSE Offset(p - 1) + Len(DataRows(TagOfPath(csv_files[p - 1])))

\* C24 (merge order): the files are taken in ascending order of their
\* names, each file of the directory once; the merged rows are the rows
\* of the first file in their order, then those of the second, and so on,
\* none dropped, duplicated or reordered.
C24_MergeOrder ==
    Merged =>
        /\ \A p, q \in 1..Len(csv_files) : p < q => StrLess(csv_files[p], csv_files[q])
        /\ Range(csv_files) = {FileName(t) : t \in DOMAIN OUTPUT_DIR}
        /\ Len(MergedRows) = Offset(Len(csv_files) + 1)
        /\ \A p \in 1..Len(csv_files) :
              LET rows == DataRows(TagOfPath(csv_files[p]))
              IN  SubSeq(MergedRows, Offset(p) + 1, Offset(p) + Len(rows)) = rows

\* The file of tag B was merged before the file of tag a: the rows of a
\* follow the TARGET_COUNT rows of B.
C24_Witness ==
    /\ mpc = "done" /\ returned = "output_file"
    /\ csv_files = <<FileName(<<"B">>), FileName(<<"a">>)>>
    /\ Len(DataRows(<<"B">>)) = TARGET_COUNT
    /\ Len(DataRows(<<"a">>)) = TARGET_COUNT - 1
    /\ MergedRows[TARGET_COUNT + 1] = [question |-> Body(1), tag |-> <<"a">>]

\* C25: in the merged output the tags are in ascending order of the tag
\* strings, the rows of one tag together.
C25_TagSorted ==
    Merged =>
        \A k \in 1..(Len(MergedRows) - 1) :
            StrLeq(MergedRows[k].tag, MergedRows[k + 1].tag)

\* C26: validation, as run_merge calls it, reports a total-row mismatch
\* whenever the merged rows are not TARGET_COUNT per artifact merged.
C26_TotalRowCheck ==
    report.done =>
        (Len(MergedRows) # TARGET_COUNT * Len(csv_files) => ~report.count_matches)

\* C27 (merge is read-only on artifacts): no step of run_merge changes the
\* artifact directory, neither its set of files nor the content of one;
\* the file it writes, at its default path whatever the day, is not in
\* that directory.
C27_MergeReadOnly ==
    [][/\ OUTPUT_DIR' = OUTPUT_DIR
       /\ OUTPUT_FILE' # OUTPUT_FILE =>
             (/\ mpc \in {"write_open", "write"}
              /\ output_file \in {default_output_file(InputDir, today) : today \in Days} =>
                    ~InDirectory(output_file, InputDir))]_vars

\* run_merge has written and validated the merged file of two artifacts,
\* one of them an empty file; both files are in the directory as listed.
C27_Witness ==
    /\ mpc = "done" /\ returned = "output_file"
    /\ output_file = default_output_file(InputDir, [year |-> 2026, month |-> 11, day |-> 1])
    /\ OUTPUT_FILE.exists /\ merged_count > 0
    /\ Cardinality(DOMAIN OUTPUT_DIR) = 2
    /\ Range(csv_files) = {FileName(t) : t \in DOMAIN OUTPUT_DIR}
    /\ \E t \in DOMAIN OUTPUT_DIR : OUTPUT_DIR[t] = <<>>

\* The examples the tag of the call has in tag_questions, none for a tag
\* that is not a key.
Available ==
    IF sample_call.tag_name \in DOMAIN tag_questions
    THEN tag_questions[sample_call.tag_name] ELSE <<>>

\* C28 (example sampling): get_random_examples(tag, k) returns an empty
\* sequence for a tag without examples, all the examples of the tag when
\* there are at most k, and otherwise exactly k examples, each the example
\* at a position of the tag's list and no position taken twice.
C28_ExampleSampling ==
    sample_call.done =>
        LET k == sample_call.num_examples
        IN  /\ Available = <<>> => examples = <<>>
            /\ Len(Available) <= k => examples = Available
            /\ Len(Available) > k =>
                  /\ Len(examples) = k
                  /\ \E pos \in [1..k -> 1..Len(Available)] :
                        /\ \A a, b \in 1..k : pos[a] = pos[b] => a = b
                        /\ \A n \in 1..k : examples[n] = Available[pos[n]]

\* Two examples were drawn from the three of a tag, two of which have the
\* same text, and not in the order of the list.
C28_Witness ==
    /\ sample_call.done
    /\ sample_call.num_examples = 2
    /\ Len(Available) = 3
    /\ Available[1] = Available[3]
    /\ examples = <<Available[2], Available[1]>>

\* The tag fields of the examples file, as get_unique_tags_from_questions
\* reads them: without surrounding whitespace.
SeenTag(k) == Strip(examples_rows[k].tag)

\* C29 (work-list contents): every list get_unique_tags_from_questions
\* has returned to a run holds each tag of the examples file (read without
\* surrounding whitespace) exactly once, holds nothing else, holds neither
\* the tag 'fraction' nor an empty tag, and is in ascending order of the
\* lower-cased tags.  (In test mode the run then keeps a prefix of it.)
C29_WorkListContents ==
    \A tags \in listed :
        /\ \A k \in 1..Len(examples_rows) :
              SeenTag(k) \notin {<<>>, Str_fraction} =>
                  Cardinality({j \in 1..Len(tags) : tags[j] = SeenTag(k)}) = 1
        /\ \A j \in 1..Len(tags) :
              /\ tags[j] \notin {<<>>, Str_fraction}
              /\ \E k \in 1..Len(examples_rows) : SeenTag(k) = tags[j]
        /\ \A j \in 1..(Len(tags) - 1) :
              StrLeq(Lower(tags[j]), Lower(tags[j + 1]))

\* A run lists the tags of a file whose rows are tagged 'B' and ' a', in
\* that order: 'a' comes before 'B'.
C29_Witness ==
    /\ Running
    /\ Len(examples_rows) = 2
    /\ examples_rows[1].tag = <<"B">> /\ examples_rows[2].tag = <<" ", "a">>
    /\ listed = {<<<<"a">>, <<"B">>>>}
    /\ unique_tags = <<<<"a">>, <<"B">>>>

\* A run lists no tag for a file whose rows carry a blank tag and the tag
\* 'fraction'.
C29_WitnessExcluded ==
    /\ Running
    /\ {examples_rows[k].tag : k \in 1..Len(examples_rows)} = {<<" ">>, Str_fraction}
    /\ listed = {<<>>}

\* The save_individual_csv call made alone has returned.
SaveDone == pc = "up_open" /\ site = "success" /\ save_call.last.called

\* C30 (per-item write shape and idempotence): when
\* save_individual_csv(tag, texts) has returned, the directory has the
\* files it had and the file of the tag, the other files are as they
\* were, and the file of the tag holds the header row and then one row
\* (texts[j], tag) for each j, whatever it held before; after a second
\* call with the same tag and texts the directory is as the first call
\* left it.
C30_WriteShape ==
    SaveDone =>
        LET c == save_call.last
            f == OUTPUT_DIR[c.tag_name]
        IN  /\ DOMAIN OUTPUT_DIR = DOMAIN c.before \cup {c.tag_name}
            /\ \A t \in DOMAIN c.before \ {c.tag_name} : OUTPUT_DIR[t] = c.before[t]
            /\ Len(f) = 1 + Len(c.questions)
            /\ f[1] = <<Str_question, Str_tag>>
            /\ \A j \in 1..Len(c.questions) : f[j + 1] = <<c.questions[j], c.tag_name>>
            /\ (/\ save_call.prior.called
                /\ save_call.prior.tag_name = c.tag_name
                /\ save_call.prior.questions = c.questions) => OUTPUT_DIR = c.before

\* The same two questions were saved twice for the same tag.
C30_Witness ==
    /\ SaveDone
    /\ save_call.prior.called
    /\ save_call.prior.tag_name = save_call.last.tag_name
    /\ save_call.prior.questions = save_call.last.questions
    /\ save_call.last.questions = <<<<"Q", "2">>, <<"Q", "1">>>>

\* A tag's file of two rows was replaced by one of a single row, the file
\* of the other tag not being there.
C30_WitnessReplaced ==
    /\ SaveDone
    /\ save_call.prior.called
    /\ save_call.prior.tag_name = save_call.last.tag_name
    /\ Len(save_call.prior.questions) = 2
    /\ Len(save_call.last.questions) = 1

\* The number of digits the text begins with.
RECURSIVE LeadingDigits(_)
LeadingDigits(t) ==
    IF t # <<>> /\ Head(t) \in DigitSet THEN 1 + LeadingDigits(Tail(t)) ELSE 0

\* The text begins with an enumeration prefix: digits, then one of . ) -
Enumerated(t) ==
    /\ LeadingDigits(t) > 0
    /\ Len(t) > LeadingDigits(t)
    /\ t[LeadingDigits(t) + 1] \in {".", ")", "-"}

\* The entry the line is to yield: the trimmed line, without its
\* enumeration prefix when it has one.
ExpectedEntry(line) ==
    LET t == Strip(line)
    IN  IF Enumerated(t)
        THEN Strip(SubSeq(t, LeadingDigits(t) + 2, Len(t)))
        ELSE t

NonBlank(line) == Strip(line) # <<>>

\* C31 (response parsing): the entries parsed from a response are, in
\* order, one for each non-blank line: the trimmed line without its
\* enumeration prefix (digits followed by '.', ')' or '-'), and the
\* trimmed line itself when it has no such prefix.
C31_ResponseParsing ==
    pc = "parsed" =>
        LET lines == SelectSeq(reply_text, NonBlank)
        IN  /\ Len(questions.list) = Len(lines)
            /\ \A k \in 1..Len(lines) : questions.list[k] = ExpectedEntry(lines[k])

\* C32 (checkpoint store round trip): a read before any write returns -1;
\* a read after update_progress(index) has completed returns index, for
\* -1 and for ordinals of any number of digits; and after a second
\* update_progress with the same index the file is as the first left it.
C32_CheckpointRoundTrip ==
    /\ (pc = "read" /\ ~progress_call.last.called) => last_processed = -1
    /\ (pc = "read" /\ progress_call.last.called) =>
          last_processed = progress_call.last.index
    /\ (/\ pc \in {"loop", "counted", "read"}
        /\ progress_call.prior.called
        /\ progress_call.prior.index = progress_call.last.index) =>
          PROGRESS_FILE = progress_call.last.before

\* An index of several digits was written twice and read back.
C32_Witness ==
    /\ pc = "read"
    /\ progress_call.prior.called
    /\ progress_call.prior.index = progress_call.last.index
    /\ progress_call.last.index >= 10
    /\ last_processed = progress_call.last.index
    /\ PROGRESS_FILE = progress_call.last.before

\* C33 (at most one generation per item per run): the ordinals for which
\* a run has called generate_questions_with_gpt5 are distinct ordinals from
\* start_index on, in ascending order; a call makes at most MAX_RETRIES
\* requests; so the requests of the run, at most MAX_RETRIES for each call
\* that returned and those of the call under way, are at most
\* MAX_RETRIES x (M - start_index).
C33_OneGenerationPerItem ==
    Running =>
        /\ \A a, b \in 1..Len(gen_calls) : a < b => gen_calls[a] < gen_calls[b]
        /\ \A n \in 1..Len(gen_calls) :
              gen_calls[n] >= start_index /\ gen_calls[n] < total_tags
        /\ Len(replies) <= MAX_RETRIES
        /\ gen_calls # <<>> =>
              MAX_RETRIES * (Len(gen_calls) - 1) + Len(replies)
                  <= MAX_RETRIES * (total_tags - start_index)

\* The first item failed after MAX_RETRIES requests, and the call for the
\* second has made MAX_RETRIES requests too.
C33_Witness ==
    /\ pc = "ret"
    /\ gen_calls = <<0, 1>>
    /\ outcome[0] = "FAILED"
    /\ Len(replies) = MAX_RETRIES
    /\ total_tags = 2 /\ start_index = 0

\* The answers file has a row for the tag, as the work list names it.
HasAnswerRow(tag) ==
    \E k \in 1..Len(answers_rows) : Strip(answers_rows[k].tag) = tag

\* The examples file has a row for the tag whose question is not blank.
HasExampleRow(tag) ==
    \E k \in 1..Len(examples_rows) :
        Strip(examples_rows[k].tag) = tag /\ Strip(examples_rows[k].question) # <<>>

\* C34 (skips reflect real data gaps): an item is SKIPPED only if the
\* input has no answer row for its tag or no example row with a non-blank
\* question for its tag, the rows of a tag being those that carry it with
\* or without surrounding whitespace.
C34_SkipsAreRealGaps ==
    Running =>
        \A j \in Ordinals :
            outcome[j] = "SKIPPED" =>
                ~HasAnswerRow(unique_tags[j + 1]) \/ ~HasExampleRow(unique_tags[j + 1])

\* C35 (no empty generated text): every entry of a list returned by
\* generate is non-empty and has no whitespace at either end; and once an
\* artifact write has completed, every data row of every artifact has a
\* non-empty question field and, as its tag field, the tag of its file,
\* which for the file just written is the tag of the item.
C35_NoEmptyText ==
    /\ (pc = "ret" /\ ~questions.none) =>
          \A k \in 1..Len(questions.list) :
              questions.list[k] # <<>> /\ Strip(questions.list[k]) = questions.list[k]
    /\ (pc = "up_open" /\ site = "success") =>
          /\ tag_name \in DOMAIN OUTPUT_DIR
          /\ \A t \in DOMAIN OUTPUT_DIR :
                \A r \in 2..Len(OUTPUT_DIR[t]) :
                    OUTPUT_DIR[t][r][1] # <<>> /\ OUTPUT_DIR[t][r][2] = t

\* The artifact of the first item is written, and generate has returned
\* a list for the second on a reply whose lines end with a carriage return.
C35_Witness ==
    /\ pc = "ret" /\ ~questions.none /\ i = 1
    /\ reply_text # <<>>
    /\ reply_text[1][Len(reply_text[1])] = "\r"
    /\ unique_tags[1] \in DOMAIN OUTPUT_DIR
    /\ Len(OUTPUT_DIR[unique_tags[1]]) = TARGET_COUNT + 1

\* C36 (tag uniqueness in the tagging stage): the groups a call of
\* generate_tags has tagged so far have tags that differ from one another,
\* whatever the service returned; when generate_tags has returned, also on
\* a processor loaded a second time, the groups mapped are those of the
\* data, their tags differ from one another, and the tag -> answer
\* mapping has one entry for each group: under the tag of the group, the
\* answer of the group.
C36_TagUniqueness ==
    /\ tpc = "tagging" =>
          \A a, b \in 1..Len(labels) :
              a # b => id_to_tag[unique_ids(data)[a]] # id_to_tag[unique_ids(data)[b]]
    /\ tpc = "tagged" =>
          /\ \A a, b \in DOMAIN id_to_tag : a # b => id_to_tag[a] # id_to_tag[b]
          /\ DOMAIN id_to_tag = Range(unique_ids(data))
          /\ Cardinality(DOMAIN tag_answer) = Len(unique_ids(data))
          /\ \A id \in DOMAIN id_to_tag :
                /\ id_to_tag[id] \in DOMAIN tag_answer
                /\ tag_answer[id_to_tag[id]] = id_to_answer(data)[id]

\* The service returned x, x and x_1: the second group got x_1, and the
\* third a tag that is neither.
C36_Witness ==
    /\ tpc = "tagged"
    /\ labels = <<<<"x">>, <<"x">>, <<"x", "_", "1">>>>
    /\ id_to_tag[<<"2">>] = <<"x", "_", "1">>
    /\ id_to_tag[<<"3">>] = <<"x", "_", "1", "_", "1">>

====
